---- MODULE Spec2Model ----
(***************************************************************************)
(* A model of ask-ts: the session transcript (a constrained Markdown       *)
(* dialect), its region scanner and turn parser, the streaming session     *)
(* writer, the ask command's streaming loop and reference expansion.       *)
(*                                                                         *)
(* Text is a sequence of tokens.  A token is one character ("BT" is a      *)
(* backtick, "NL" a newline, "SP" a space, "LB"/"RB" the square brackets,  *)
(* "ZW" the zero-width space U+200B, "x" any other character) or a fixed   *)
(* multi-character literal that the code only ever matches as a whole      *)
(* (the word markdown, a turn header, an expansion marker).                *)
(***************************************************************************)
EXTENDS Integers, Sequences, FiniteSets, TLC

VARIABLES
    file,        \* content of the session file on disk
    pc,          \* control position of the running command
    session,     \* Session returned by the last readSession
    writer,      \* SessionWriter fields: headerWritten, contentWritten, turnNumber
    interrupted, \* the ask loop's cancellation flag
    sigintCount, \* number of SIGINT signals received by the ask command
    stream,      \* the transport's generator: its phase and the chunks yielded
    chunks,      \* concatenation of the chunks passed to the writer (history)
    before,      \* the session file as it was when the command started (history)
    refs,        \* input text given to expandReferences
    result,      \* value returned by the last expansion call
    env,         \* what the command finds outside: files, the web, config.web
    error,       \* the error the command ended with, NoError when there is none
    output,      \* the diagnostics printed through output.warning and output.fetchError
    tmp,         \* the temporary file of an atomic save: whether it exists, its content
    retry        \* the call of withRetry: attempt, invocations, delays slept, errors caught

vars == <<file, pc, session, writer, interrupted, sigintCount, stream, chunks,
          before, refs, result, env, error, output, tmp, retry>>

----------------------------------------------------------------------------
(* Bounds of the model *)

MaxLines == 5          \* lines a user types into a session file
MaxTurnNumber == 3     \* largest turn number written in a header

----------------------------------------------------------------------------
(* Characters and string primitives *)

BT == "BT"
NL == "NL"
SP == "SP"
LB == "LB"
RB == "RB"
ZW == "ZW"
MARKDOWN == "markdown"

Roles == {"Human", "AI"}

\* `# [${n}] ${role}`
HeaderText(n, role) == "# [" \o ToString(n) \o "] " \o role

\* JavaScript's \s and the characters String.prototype.trim removes
IsSpace(c) == c \in {SP, NL}

RECURSIVE split(_)
\* content.split('\n')
split(content) ==
    IF \E i \in 1..Len(content) : content[i] = NL
    THEN LET i == CHOOSE j \in 1..Len(content) :
                      content[j] = NL /\ \A k \in 1..(j - 1) : content[k] # NL
         IN  <<SubSeq(content, 1, i - 1)>> \o split(SubSeq(content, i + 1, Len(content)))
    ELSE <<content>>

RECURSIVE join(_)
\* lines.join('\n')
join(lines) ==
    IF Len(lines) = 0 THEN <<>>
    ELSE IF Len(lines) = 1 THEN lines[1]
    ELSE lines[1] \o <<NL>> \o join(Tail(lines))

\* content.trimEnd()
trimEnd(s) ==
    LET keep == {i \in 1..Len(s) : ~IsSpace(s[i])}
    IN  IF keep = {} THEN <<>>
        ELSE SubSeq(s, 1, CHOOSE i \in keep : \A j \in keep : j <= i)

\* content.trim()
trim(s) ==
    LET keep == {i \in 1..Len(s) : ~IsSpace(s[i])}
    IN  IF keep = {} THEN <<>>
        ELSE SubSeq(s, CHOOSE i \in keep : \A j \in keep : i <= j,
                       CHOOSE i \in keep : \A j \in keep : j <= i)

\* length of the backtick run a text starts with
leadingRun(s) ==
    IF s = <<>> \/ s[1] # BT THEN 0
    ELSE IF \A i \in 1..Len(s) : s[i] = BT THEN Len(s)
    ELSE (CHOOSE i \in 1..Len(s) : s[i] # BT /\ \A k \in 1..(i - 1) : s[k] = BT) - 1

----------------------------------------------------------------------------
(* Region scanner *)

DirOpen == "<!-- dir: src/ -->"
DirClose == "<!-- /dir -->"
UrlOpen == "<!-- url: https://e.com -->"
UrlClose == "<!-- /url -->"
FileOpen == "<!-- file: a.md -->"
FileClose == "<!-- /file -->"

\* line.match(/^(`{3,})/): the length of the matched run, 0 when there is no match
fenceMatch(line) == IF leadingRun(line) >= 3 THEN leadingRun(line) ELSE 0

\* lines[i].match(/^(`{3,})\s*$/): the length of the matched run, 0 when no match
closingMatch(line) ==
    IF leadingRun(line) >= 3
       /\ \A k \in (leadingRun(line) + 1)..Len(line) : IsSpace(line[k])
    THEN leadingRun(line) ELSE 0

\* a scanner that knows no expanded-file blocks
openingType_NoFileBlock(line) ==
    IF fenceMatch(line) > 0 THEN "code-fence"
    ELSE IF line = <<DirOpen>> THEN "expanded-dir"
    ELSE IF line = <<UrlOpen>> THEN "expanded-url"
    ELSE "none"

\* the opening tests of findExcludedRegions, in the order the code makes them
openingType(line) ==
    IF fenceMatch(line) > 0 THEN "code-fence"
    ELSE IF line = <<DirOpen>> THEN "expanded-dir"
    ELSE IF line = <<UrlOpen>> THEN "expanded-url"
    ELSE IF line = <<FileOpen>> THEN "expanded-file"
    ELSE "none"

\* a scanner that lets any fence line close a fence, whatever its length
closesRegion_AnyLength(type, fence, line) ==
    CASE type = "code-fence" -> closingMatch(line) > 0
      [] type = "expanded-dir" -> line = <<DirClose>>
      [] type = "expanded-url" -> line = <<UrlClose>>
      [] type = "expanded-file" -> line = <<FileClose>>

\* the test that ends the inner while loop of a region of the given type
closesRegion(type, fence, line) ==
    CASE type = "code-fence" -> closingMatch(line) > 0 /\ closingMatch(line) >= fence
      [] type = "expanded-dir" -> line = <<DirClose>>
      [] type = "expanded-url" -> line = <<UrlClose>>
      [] type = "expanded-file" -> line = <<FileClose>>

\* a scanner that drops a region whose closing line is missing: the region
\* then covers its opening line only
findClosing_DropUnclosed(lines, i, type, fence) ==
    LET closers == {j \in i..Len(lines) : closesRegion(type, fence, lines[j])}
    IN  IF closers = {} THEN i - 1
        ELSE CHOOSE j \in closers : \A k \in closers : j <= k

RECURSIVE findClosing(_, _, _, _)
\* the inner while loops: the first index from i on whose line closes the
\* region, or Len(lines) + 1 when the region is unterminated
findClosing(lines, i, type, fence) ==
    IF i > Len(lines) THEN i
    ELSE IF closesRegion(type, fence, lines[i]) THEN i
    ELSE findClosing(lines, i + 1, type, fence)

RECURSIVE scanRegions(_, _, _)
\* the outer while loop of findExcludedRegions, at line index i
scanRegions(lines, i, regions) ==
    IF i > Len(lines) THEN regions
    ELSE LET type == openingType(lines[i])
         IN  IF type = "none" THEN scanRegions(lines, i + 1, regions)
             ELSE LET end == findClosing(lines, i + 1, type, fenceMatch(lines[i]))
                  IN  scanRegions(lines, end + 1,
                          Append(regions, [type |-> type, start |-> i, end |-> end]))

\* Regions carry 1-based line indices; an unterminated region ends at
\* Len(lines) + 1, one past the last line, as in the code.
findExcludedRegions(lines) == scanRegions(lines, 1, <<>>)

isInExcludedRegion(lineIndex, regions) ==
    \E k \in DOMAIN regions :
        lineIndex >= regions[k].start /\ lineIndex <= regions[k].end

----------------------------------------------------------------------------
(* Turn parser *)

\* lines[i].match(/^# \[(\d+)\] (Human|AI)$/)
isHeaderLine(line) ==
    Len(line) = 1
    /\ \E n \in 0..(MaxTurnNumber + 1), r \in Roles : line[1] = HeaderText(n, r)

headerNumber(line) ==
    CHOOSE n \in 0..(MaxTurnNumber + 1) : \E r \in Roles : line[1] = HeaderText(n, r)

headerRole(line) ==
    CHOOSE r \in Roles : \E n \in 0..(MaxTurnNumber + 1) : line[1] = HeaderText(n, r)

\* a parser that matches headers on every line, excluded or not
turnHeaders_NoExclusion(lines) ==
    LET idx == {i \in 1..Len(lines) : isHeaderLine(lines[i])}
        RECURSIVE ordered(_)
        ordered(S) ==
            IF S = {} THEN <<>>
            ELSE LET m == CHOOSE i \in S : \A j \in S : i <= j
                 IN  <<m>> \o ordered(S \ {m})
    IN  ordered(idx)

\* first loop of parseSession: the line indices of the turn headers, ascending
turnHeaders(lines) ==
    LET regions == findExcludedRegions(lines)
        idx == {i \in 1..Len(lines) :
                   ~isInExcludedRegion(i, regions) /\ isHeaderLine(lines[i])}
        RECURSIVE ordered(_)
        ordered(S) ==
            IF S = {} THEN <<>>
            ELSE LET m == CHOOSE i \in S : \A j \in S : i <= j
                 IN  <<m>> \o ordered(S \ {m})
    IN  ordered(idx)

unwrapMarkdownFence(content) ==
    LET k == leadingRun(content)
        \* content.match(/^(`{4,})markdown\n/)
        openMatch == k >= 4 /\ Len(content) >= k + 2
                     /\ content[k + 1] = MARKDOWN /\ content[k + 2] = NL
        afterOpen == SubSeq(content, k + 3, Len(content))
        \* new RegExp(`\n${fence}$`).test(afterOpen)
        closeMatch == Len(afterOpen) >= k + 1
                      /\ afterOpen[Len(afterOpen) - k] = NL
                      /\ \A j \in (Len(afterOpen) - k + 1)..Len(afterOpen) :
                             afterOpen[j] = BT
    IN  IF ~openMatch THEN content
        ELSE IF closeMatch
        THEN trim(SubSeq(afterOpen, 1, Len(afterOpen) - k - 1))
        ELSE content

\* the content of a turn: an AI turn loses its markdown wrapper
turnContent(role, raw) == IF role = "AI" THEN unwrapMarkdownFence(raw) ELSE raw

\* the turn whose header is the i-th of hs: its text runs to the next header
turnAt(lines, hs, i) ==
    [number |-> headerNumber(lines[hs[i]]),
     role |-> headerRole(lines[hs[i]]),
     content |-> turnContent(headerRole(lines[hs[i]]),
                     trim(join(SubSeq(lines, hs[i] + 1,
                         (IF i < Len(hs) THEN hs[i + 1] ELSE Len(lines) + 1) - 1))))]

\* `if (content) turns.push(...)`: a turn with empty content is dropped
pushTurn(turn) == IF turn.content # <<>> THEN <<turn>> ELSE <<>>

RECURSIVE collectTurns(_, _, _)
\* second loop of parseSession, from the i-th header on
collectTurns(lines, hs, i) ==
    IF i > Len(hs) THEN <<>>
    ELSE pushTurn(turnAt(lines, hs, i)) \o collectTurns(lines, hs, i + 1)

\* a parser that stops at the first Human turn instead of the last
lastHumanTurnIndex_First(turns) ==
    IF \A i \in 1..Len(turns) : turns[i].role # "Human" THEN -1
    ELSE (CHOOSE i \in 1..Len(turns) :
             /\ turns[i].role = "Human"
             /\ \A j \in 1..(i - 1) : turns[j].role # "Human") - 1

\* the index is 0-based as in the code, -1 when there is no Human turn
lastHumanTurnIndex(turns) ==
    IF \A i \in 1..Len(turns) : turns[i].role # "Human" THEN -1
    ELSE (CHOOSE i \in 1..Len(turns) :
             /\ turns[i].role = "Human"
             /\ \A j \in (i + 1)..Len(turns) : turns[j].role # "Human") - 1

sessionOf(turns) == [turns |-> turns, lastHumanTurnIndex |-> lastHumanTurnIndex(turns)]

parseLines(lines) == sessionOf(collectTurns(lines, turnHeaders(lines), 1))

parseSession(content) == parseLines(split(content))

----------------------------------------------------------------------------
(* State shared by every specification *)

NoSession == [turns |-> <<>>, lastHumanTurnIndex |-> -1]
NoWriter == [headerWritten |-> FALSE, contentWritten |-> FALSE, turnNumber |-> 0]
NoResult == [expanded |-> <<>>, fileCount |-> 0]
NoStream == [phase |-> "idle", count |-> 0]
NoError == "none"
NoTmp == [exists |-> FALSE, content |-> <<>>]

\* fileText: the text of the file a.md; page: the text the URL serves;
\* web: config.web; globDirs: whether Bun.Glob.scan() called without options
\* yields directories as well as files
DefaultEnv == [fileText |-> <<"x">>, page |-> <<"x">>, web |-> TRUE, globDirs |-> FALSE]

\* `ask init` writes '# [1] Human\n\n\n'
InitFile == <<HeaderText(1, "Human"), NL, NL, NL>>

NoRetry == [attempt |-> 0, invocations |-> 0, slept |-> <<>>, caught |-> <<>>]

IdleProgram ==
    /\ pc = "edit"
    /\ session = NoSession
    /\ writer = NoWriter
    /\ interrupted = FALSE
    /\ sigintCount = 0
    /\ stream = NoStream
    /\ chunks = <<>>
    /\ before = <<>>
    /\ refs = <<>>
    /\ result = NoResult
    /\ error = NoError
    /\ output = <<>>
    /\ tmp = NoTmp
    /\ retry = NoRetry

Idle == IdleProgram /\ env = DefaultEnv

\* The user appends one line to the session file in an editor.
TypeLine(line, limit) ==
    /\ pc = "edit"
    /\ Len(split(file)) < Len(split(InitFile)) + limit
    /\ file' = file \o line \o <<NL>>
    /\ UNCHANGED <<pc, session, writer, interrupted, sigintCount, stream, chunks,
                   before, refs, result, env, error, output, tmp, retry>>

\* readSession: read the file and parse it
ReadSession ==
    /\ pc = "edit"
    /\ session' = parseSession(file)
    /\ pc' = "parsed"
    /\ UNCHANGED <<file, writer, interrupted, sigintCount, stream, chunks,
                   before, refs, result, env, error, output, tmp, retry>>

----------------------------------------------------------------------------
(* Session validation and the streaming session writer *)

\* validateSession: "ok", or the reason it throws
\* a validation without the check for an existing response
validateSession_NoAnsweredCheck(s) ==
    IF Len(s.turns) = 0 THEN "EmptySession"
    ELSE IF s.lastHumanTurnIndex = -1 THEN "NoHumanTurn"
    ELSE IF trim(s.turns[s.lastHumanTurnIndex + 1].content) = <<>> THEN "EmptyTurn"
    ELSE "ok"

validateSession(s) ==
    IF Len(s.turns) = 0 THEN "EmptySession"
    ELSE IF s.lastHumanTurnIndex = -1 THEN "NoHumanTurn"
    ELSE LET lastHumanTurn == s.turns[s.lastHumanTurnIndex + 1]
             lastTurn == s.turns[Len(s.turns)]
         IN  IF trim(lastHumanTurn.content) = <<>> THEN "EmptyTurn"
             ELSE IF lastTurn.role = "AI" /\ lastTurn.number > lastHumanTurn.number
             THEN "AlreadyAnswered"
             ELSE "ok"

INTERRUPTED == "[Interrupted]"

\* `\n\n# [${turnNumber}] AI\n\n\`\`\`\`markdown\n`
aiHeader(turnNumber) ==
    <<NL, NL, HeaderText(turnNumber, "AI"), NL, NL, BT, BT, BT, BT, MARKDOWN, NL>>

\* SessionWriter.writeHeader: the file content it writes
writeHeader(content, turnNumber) == trimEnd(content) \o aiHeader(turnNumber)

\* a writer that strips the white space around each chunk
writeChunk_Trimmed(w, chunk) == IF ~w.headerWritten \/ chunk = <<>> THEN <<>> ELSE trim(chunk)

\* SessionWriter.write: the text appended for a chunk
writeChunk(w, chunk) == IF ~w.headerWritten \/ chunk = <<>> THEN <<>> ELSE chunk

\* a writer that marks every interrupted answer, chunks written or not
endClosing_AlwaysMarks(w, isInterrupted) ==
    IF ~w.headerWritten THEN <<>>
    ELSE (IF isInterrupted THEN <<NL, INTERRUPTED>> ELSE <<>>)
         \o <<NL, BT, BT, BT, BT, NL, NL, HeaderText(w.turnNumber + 1, "Human"), NL, NL>>

\* SessionWriter.end: the text appended
endClosing(w, isInterrupted) ==
    IF ~w.headerWritten THEN <<>>
    ELSE (IF isInterrupted /\ w.contentWritten THEN <<NL, INTERRUPTED>> ELSE <<>>)
         \o <<NL, BT, BT, BT, BT, NL, NL, HeaderText(w.turnNumber + 1, "Human"), NL, NL>>

----------------------------------------------------------------------------
(* The ask command *)

MaxAskLines == 2       \* lines a user types before running ask
MaxChunks == 3         \* text chunks the transport yields in one answer

AskLines == { <<"x">>, <<BT, BT, BT>> }

\* texts of the chunk events the transport yields
ChunkTexts ==
    { <<"x">>, <<NL>>, <<BT, BT, BT, BT>>, <<HeaderText(3, "Human")>> }

\* the number of the turn the answer gets
nextTurnNumber(s) == s.turns[Len(s.turns)].number + 1

\* ask run, up to the creation of the writer: readSession, expandAndSaveSession
\* (the documents typed here hold no bracket reference, so it changes
\* nothing), validateSession, SessionWriter creation with the header written
AskStart ==
    /\ pc = "edit"
    /\ session' = parseSession(file)
    /\ before' = file
    /\ IF validateSession(session') # "ok"
       THEN /\ pc' = "exited"
            /\ error' = validateSession(session')
            /\ UNCHANGED <<file, writer, stream>>
       ELSE /\ pc' = "streaming"
            /\ file' = writeHeader(file, nextTurnNumber(session'))
            /\ writer' = [headerWritten |-> TRUE, contentWritten |-> FALSE,
                          turnNumber |-> nextTurnNumber(session')]
            /\ stream' = [phase |-> "start", count |-> 0]
            /\ UNCHANGED error
    /\ UNCHANGED <<interrupted, sigintCount, chunks, refs, result, env, output, tmp, retry>>

\* the SIGINT handler: the second signal ends the process at once
Sigint ==
    /\ pc = "streaming"
    /\ sigintCount' = sigintCount + 1
    /\ interrupted' = TRUE
    /\ pc' = IF sigintCount + 1 >= 2 THEN "exited" ELSE pc
    /\ UNCHANGED <<file, session, writer, stream, chunks, before, refs, result, env, error, output, tmp, retry>>

\* the events streamCompletion may yield next: start, then chunks, then end;
\* an error event may replace any of the events after start and is the last
NextEvents ==
    IF stream.phase = "start" THEN {[type |-> "start", text |-> <<>>]}
    ELSE IF stream.phase = "open"
    THEN {[type |-> "chunk", text |-> t] : t \in IF stream.count < MaxChunks THEN ChunkTexts ELSE {}}
         \cup {[type |-> "end", text |-> <<>>], [type |-> "error", text |-> <<>>]}
    ELSE {}

\* one iteration of the for-await loop, on the event the transport yields
LoopEvent(event) ==
    /\ pc = "streaming"
    /\ event \in NextEvents
    /\ stream' = [phase |-> IF event.type \in {"end", "error"} THEN "finished" ELSE "open",
                  count |-> stream.count + (IF event.type = "chunk" THEN 1 ELSE 0)]
    /\ IF interrupted
       THEN \* break, then writer.end(interrupted)
            /\ file' = file \o endClosing(writer, interrupted)
            /\ pc' = "done"
            /\ UNCHANGED <<writer, chunks, error>>
       ELSE CASE event.type = "chunk" ->
                    /\ file' = file \o writeChunk(writer, event.text)
                    /\ writer' = [writer EXCEPT !.contentWritten =
                                      @ \/ writeChunk(writer, event.text) # <<>>]
                    /\ chunks' = chunks \o event.text
                    /\ UNCHANGED <<pc, error>>
              [] event.type = "error" ->
                    \* throw event.error, caught by exitWithError
                    /\ pc' = "exited"
                    /\ error' = "StreamError"
                    /\ UNCHANGED <<file, writer, chunks>>
              [] OTHER -> UNCHANGED <<file, writer, chunks, pc, error>>
    /\ UNCHANGED <<session, interrupted, sigintCount, before, refs, result, env, output, tmp, retry>>

\* the transport has no more events: the loop ends, then writer.end(interrupted)
LoopExit ==
    /\ pc = "streaming"
    /\ stream.phase = "finished"
    /\ file' = file \o endClosing(writer, interrupted)
    /\ pc' = "done"
    /\ UNCHANGED <<session, writer, interrupted, sigintCount, stream, chunks, before,
                   refs, result, env, error, output, tmp, retry>>

\* the next run of ask reads the session again
Reread ==
    /\ pc = "done"
    /\ session' = parseSession(file)
    /\ pc' = "reparsed"
    /\ UNCHANGED <<file, writer, interrupted, sigintCount, stream, chunks, before,
                   refs, result, env, error, output, tmp, retry>>

InitAsk == file = InitFile /\ Idle

NextAsk ==
    \/ \E line \in AskLines : TypeLine(line, MaxAskLines)
    \/ AskStart
    \/ Sigint
    \/ \E event \in NextEvents : LoopEvent(event)
    \/ LoopExit
    \/ Reread

SpecAsk == InitAsk /\ [][NextAsk]_vars

----------------------------------------------------------------------------
(* Specification of the parser over documents with code fences *)

FenceLines ==
    { <<BT, BT, BT>>,                  \* a 3-backtick fence line
      <<BT, BT, BT, "x">>,             \* a 3-backtick fence line with an info string
      <<BT, BT, BT, BT, SP>>,          \* a 4-backtick fence line with trailing space
      <<HeaderText(2, "AI")>>,         \* a turn header (or a look-alike, in a fence)
      <<"x">> }                        \* ordinary text

InitFence == file = InitFile /\ Idle

NextFence == (\E line \in FenceLines : TypeLine(line, MaxLines)) \/ ReadSession

SpecFence == InitFence /\ [][NextFence]_vars

----------------------------------------------------------------------------
(* Specification of the parser over documents with expansion-marker blocks *)

MaxMarkerLines == 4    \* lines a user types into a file with marker blocks

MarkerLines ==
    { <<DirOpen>>, <<DirClose>>, <<FileOpen>>, <<FileClose>>, <<UrlOpen>>, <<UrlClose>>,
      <<BT, BT, BT>>,                  \* a fence line inside or outside a block
      <<HeaderText(2, "AI")>> }        \* a turn header (or a look-alike, in a block)

InitMarker == file = InitFile /\ Idle

NextMarker == (\E line \in MarkerLines : TypeLine(line, MaxMarkerLines)) \/ ReadSession

SpecMarker == InitMarker /\ [][NextMarker]_vars

----------------------------------------------------------------------------
(* The document grammar, as the claims state it: a block is opened by a     *)
(* fence line or a marker line that is not itself inside an earlier block,  *)
(* and runs to its closing line or to the end of the document.              *)

Contains(s, sub) ==
    \E p \in 0..(Len(s) - Len(sub)) : SubSeq(s, p + 1, p + Len(sub)) = sub

Range(seq) == {seq[i] : i \in DOMAIN seq}

BacktickRun(line) == Cardinality({i \in 1..Len(line) : \A k \in 1..i : line[k] = BT})

HeaderLike(line) ==
    Len(line) = 1 /\ \E n \in 0..(MaxTurnNumber + 1), r \in Roles : line = <<HeaderText(n, r)>>

OpensFence(line) == BacktickRun(line) >= 3

OpensMarker(line) == line \in {<<DirOpen>>, <<FileOpen>>, <<UrlOpen>>}

\* a backtick run of at least k, then nothing but whitespace
ClosesFence(k, line) ==
    /\ BacktickRun(line) >= 3
    /\ BacktickRun(line) >= k
    /\ \A j \in 1..Len(line) : line[j] \in {BT, SP}
    /\ \A j \in 1..Len(line) : line[j] = SP => \A m \in j..Len(line) : line[m] = SP

ClosesBlock(open, line) ==
    IF OpensFence(open) THEN ClosesFence(BacktickRun(open), line)
    ELSE \/ open = <<DirOpen>> /\ line = <<DirClose>>
         \/ open = <<FileOpen>> /\ line = <<FileClose>>
         \/ open = <<UrlOpen>> /\ line = <<UrlClose>>

\* the closing line of the block opened at line o, Len(lines) + 1 when it has none
BlockEnd(lines, o) ==
    LET closers == {j \in (o + 1)..Len(lines) : ClosesBlock(lines[o], lines[j])}
    IN  IF closers = {} THEN Len(lines) + 1
        ELSE CHOOSE j \in closers : \A m \in closers : j <= m

RECURSIVE BlockStartsFrom(_, _)
BlockStartsFrom(lines, i) ==
    IF i > Len(lines) THEN {}
    ELSE IF OpensFence(lines[i]) \/ OpensMarker(lines[i])
    THEN {i} \cup BlockStartsFrom(lines, BlockEnd(lines, i) + 1)
    ELSE BlockStartsFrom(lines, i + 1)

BlockStarts(lines) == BlockStartsFrom(lines, 1)

FenceStarts(lines) == {o \in BlockStarts(lines) : OpensFence(lines[o])}

MarkerStarts(lines) == {o \in BlockStarts(lines) : OpensMarker(lines[o])}

\* header-like lines that lie in no block: the real turn boundaries
RealHeaders(lines) ==
    {i \in 1..Len(lines) :
        /\ HeaderLike(lines[i])
        /\ \A o \in BlockStarts(lines) : ~(o < i /\ i <= BlockEnd(lines, o))}

\* lines o..i, joined and trimmed, are a contiguous part of one parsed turn's
\* content
InOneTurn(lines, o, i) ==
    \E t \in DOMAIN session.turns :
        Contains(session.turns[t].content, trim(join(SubSeq(lines, o, i))))

----------------------------------------------------------------------------
(* C1..C4: look-alike headers inside excluded regions *)

\* C1: a line that matches the turn-header pattern but lies inside a code
\* fence (after the fence's opening line, up to its closing line) is not a
\* turn boundary: parseSession records no header there, and the fence from
\* its opening line to that line stays inside one turn's content.
C1_FencedHeaderIsContent ==
    pc = "parsed" =>
        LET lines == split(file)
        IN  \A o \in FenceStarts(lines) :
                \A i \in (o + 1)..Len(lines) :
                    (i < BlockEnd(lines, o) /\ HeaderLike(lines[i])) =>
                        /\ i \notin Range(turnHeaders(lines))
                        /\ InOneTurn(lines, o, i)

\* A closed fence holding a look-alike header, followed by a real header.
C1_Witness ==
    /\ pc = "parsed"
    /\ LET lines == split(file)
       IN  \E o \in FenceStarts(lines) :
               /\ BlockEnd(lines, o) <= Len(lines)
               /\ \E i \in (o + 1)..(BlockEnd(lines, o) - 1) : HeaderLike(lines[i])
               /\ \E h \in RealHeaders(lines) : h > BlockEnd(lines, o)
               /\ Len(session.turns) = 2

\* C2: a line that matches the turn-header pattern and lies inside an
\* expansion-marker block (dir, file or url, whatever the block wraps) is
\* not a turn boundary.
C2_MarkedHeaderIsContent ==
    pc = "parsed" =>
        LET lines == split(file)
        IN  \A o \in MarkerStarts(lines) :
                \A i \in (o + 1)..Len(lines) :
                    (i < BlockEnd(lines, o) /\ HeaderLike(lines[i])) =>
                        /\ i \notin Range(turnHeaders(lines))
                        /\ InOneTurn(lines, o, i)

\* A closed file block that wraps a fence line and a look-alike header.
C2_Witness ==
    /\ pc = "parsed"
    /\ LET lines == split(file)
       IN  \E o \in MarkerStarts(lines) :
               /\ lines[o] = <<FileOpen>>
               /\ BlockEnd(lines, o) <= Len(lines)
               /\ \E i \in (o + 1)..(BlockEnd(lines, o) - 1) : HeaderLike(lines[i])
               /\ \E i \in (o + 1)..(BlockEnd(lines, o) - 1) : OpensFence(lines[i])

\* C3: a code-fence region opened by a run of k backticks ends, when it ends
\* inside the document, at a line made of a backtick run of length >= k and
\* trailing whitespace only; a line in the fence with a shorter run or with
\* text after the run does not end it, and header-like lines after such a
\* line and before the closing line are no turn headers.
C3_FenceClosedByLongEnoughRun ==
    pc = "parsed" =>
        LET lines == split(file)
            regions == findExcludedRegions(lines)
        IN  \A r \in DOMAIN regions :
                regions[r].type = "code-fence" =>
                    LET k == BacktickRun(lines[regions[r].start])
                    IN  /\ k >= 3
                        /\ regions[r].end <= Len(lines) => ClosesFence(k, lines[regions[r].end])
                        /\ \A j \in (regions[r].start + 1)..Len(lines) :
                               j < regions[r].end =>
                                   /\ ~ClosesFence(k, lines[j])
                                   /\ j \notin Range(turnHeaders(lines))

\* A 4-backtick fence holding a 3-backtick line, then a look-alike header,
\* then its closing line.
C3_Witness ==
    /\ pc = "parsed"
    /\ LET lines == split(file)
           regions == findExcludedRegions(lines)
       IN  \E r \in DOMAIN regions :
               /\ BacktickRun(lines[regions[r].start]) = 4
               /\ regions[r].end <= Len(lines)
               /\ \E j \in (regions[r].start + 1)..(regions[r].end - 1) :
                      /\ BacktickRun(lines[j]) = 3
                      /\ j + 1 < regions[r].end
                      /\ HeaderLike(lines[j + 1])

\* C4: when a code fence is opened inside a turn and no closing line follows,
\* no line after the opening line is a turn header, and a document whose only
\* header before the fence is turn 1 parses to exactly one turn.
C4_UnclosedFenceAbsorbsRest ==
    pc = "parsed" =>
        LET lines == split(file)
        IN  \A o \in FenceStarts(lines) :
                BlockEnd(lines, o) > Len(lines) =>
                    /\ \A h \in Range(turnHeaders(lines)) : h < o
                    /\ {h \in RealHeaders(lines) : h < o} = {1} =>
                           /\ Len(session.turns) = 1
                           /\ session.turns[1].number = 1
                           /\ InOneTurn(lines, o, Len(lines) - 1)

\* An unclosed fence in turn 1 followed by a look-alike header.
C4_Witness ==
    /\ pc = "parsed"
    /\ LET lines == split(file)
       IN  \E o \in FenceStarts(lines) :
               /\ BlockEnd(lines, o) > Len(lines)
               /\ {h \in RealHeaders(lines) : h < o} = {1}
               /\ \E i \in (o + 1)..Len(lines) : HeaderLike(lines[i])

----------------------------------------------------------------------------
(* Specification of the parser over documents with a wrapped AI turn *)

MaxWrapLines == 4      \* lines a user types into a file with a wrapped AI turn

WrapLines ==
    { <<HeaderText(2, "AI")>>,
      <<BT, BT, BT, BT, MARKDOWN>>,    \* the opening line of the AI wrapper
      <<BT, BT, BT, BT>>,              \* a closing fence as long as the opening one
      <<BT, BT, BT, BT, BT>>,          \* a closing fence longer than the opening one
      <<"x">> }

InitWrap == file = InitFile /\ Idle

NextWrap == (\E line \in WrapLines : TypeLine(line, MaxWrapLines)) \/ ReadSession

SpecWrap == InitWrap /\ [][NextWrap]_vars

----------------------------------------------------------------------------
(* C10: unwrapping of the AI wrapper *)

RECURSIVE Ascending(_)
Ascending(S) ==
    IF S = {} THEN <<>>
    ELSE LET m == CHOOSE i \in S : \A j \in S : i <= j
         IN  <<m>> \o Ascending(S \ {m})

\* the trimmed text between the h-th real header and the next one
RawTurn(lines, h) ==
    LET hs == Ascending(RealHeaders(lines))
        last == IF h < Len(hs) THEN hs[h + 1] - 1 ELSE Len(lines)
    IN  trim(join(SubSeq(lines, hs[h] + 1, last)))

\* c begins with a fence of k >= 4 backticks, the word markdown and a newline
OpensWrapper(c) ==
    /\ BacktickRun(c) >= 4
    /\ Len(c) >= BacktickRun(c) + 2
    /\ c[BacktickRun(c) + 1] = MARKDOWN
    /\ c[BacktickRun(c) + 2] = NL

\* c ends with a line, other than its first, that is a run of >= k backticks
EndsWithClosingFence(c, k) ==
    LET ls == split(c)
    IN  /\ Len(ls) >= 2
        /\ ls[Len(ls)] # <<>>
        /\ \A j \in 1..Len(ls[Len(ls)]) : ls[Len(ls)][j] = BT
        /\ Len(ls[Len(ls)]) >= k

\* the contents the claim allows for a turn of the given role and raw text c;
\* for an opening fence without a closing one it allows both c itself and c
\* without its opening line
ClaimedContents(role, c) ==
    LET ls == split(c)
    IN  IF role = "AI" /\ OpensWrapper(c)
        THEN IF EndsWithClosingFence(c, BacktickRun(c))
             THEN {trim(join(SubSeq(ls, 2, Len(ls) - 1)))}
             ELSE {c, trim(join(SubSeq(ls, 2, Len(ls))))}
        ELSE {c}

RECURSIVE ClaimedTurnsFrom(_, _)
\* the turn sequences the claim allows from the h-th real header on
ClaimedTurnsFrom(lines, h) ==
    LET hs == Ascending(RealHeaders(lines))
    IN  IF h > Len(hs) THEN {<<>>}
        ELSE LET head == lines[hs[h]]
                 role == IF \E n \in 0..(MaxTurnNumber + 1) : head = <<HeaderText(n, "AI")>>
                         THEN "AI" ELSE "Human"
                 number == CHOOSE n \in 0..(MaxTurnNumber + 1) : head = <<HeaderText(n, role)>>
             IN  { IF c = <<>> THEN rest
                   ELSE <<[number |-> number, role |-> role, content |-> c]>> \o rest :
                       c \in ClaimedContents(role, RawTurn(lines, h)),
                       rest \in ClaimedTurnsFrom(lines, h + 1) }

\* C10: an AI turn whose trimmed content begins with a fence of k >= 4
\* backticks and the word markdown loses that opening line and, when it ends
\* with a closing fence line of k or more backticks, that closing line too,
\* and is trimmed again; a Human turn keeps its content as it is.
C10_UnwrapEqualOrLongerFence ==
    pc = "parsed" => session.turns \in ClaimedTurnsFrom(split(file), 1)

----------------------------------------------------------------------------
(* Claims about the streaming writer and the ask loop *)

\* C5: round trip of the streaming writer and the parser: after the header,
\* the chunks and end(false), reading the file again yields the turns of the
\* document as it was before, followed by one AI turn numbered N whose content
\* is the trimmed concatenation of the streamed chunks, and no other turn.
C5_WriterParserRoundTrip ==
    (pc = "reparsed" /\ ~interrupted) =>
        session.turns = parseSession(before).turns
                        \o <<[number |-> writer.turnNumber, role |-> "AI",
                              content |-> trim(chunks)]>>

EndsWith(s, suffix) ==
    /\ Len(s) >= Len(suffix)
    /\ SubSeq(s, Len(s) - Len(suffix) + 1, Len(s)) = suffix

\* a closed AI fence followed by the open header of the next Human turn
ClosedTurnOpenHuman(n) ==
    <<NL, BT, BT, BT, BT, NL, NL, HeaderText(n + 1, "Human"), NL, NL>>

\* C6: cooperative cancellation: when the interrupt signal arrived while the
\* loop was consuming events (the AI header written), the command finishes with
\* a file that ends with a closed AI fence and the open header of Human turn
\* N+1.
C6_InterruptLeavesClosedTurn ==
    (pc \in {"done", "exited", "reparsed"} /\ interrupted /\ writer.headerWritten) =>
        EndsWith(file, ClosedTurnOpenHuman(writer.turnNumber))

----------------------------------------------------------------------------
(* Reference expansion *)

\* Names are single tokens.  A directory reference is the directory name
\* followed by the token "/" or "/**/".
SLASH == "/"
RECURSIVE_SUFFIX == "/**/"
URL == "https://e.com"
PATTERN_PAYLOAD == "$&"       \* a payload that is a replacement pattern of String.replace

TextFiles == {"a.md", "src/a.md", "top/sub/c.md"}
BinaryFiles == {"b.bin", "src/b.bin"}
Directories == {"src", "empty", "top"}

\* file.text(); the files of the model hold no licence header and no comment,
\* so filterContent leaves them as they are
fileText(e, name) == IF name = "a.md" THEN e.fileText ELSE <<"x">>

\* glob.scan({ onlyFiles: true }) of `${path}/*` or `${path}/**/*`
globFiles(path, recursive) ==
    IF path = <<"src">> THEN <<"src/a.md", "src/b.bin">>
    ELSE IF path = <<"top">> /\ recursive THEN <<"top/sub/c.md">>
    ELSE <<>>

\* the subdirectories that `${path}/*` matches
globSubdirs(path) == IF path = <<"top">> THEN {"top/sub"} ELSE {}

HTTP_URL == "http://e.com"

\* ref.startsWith('http://') || ref.startsWith('https://')
isUrl(ref) == ref[1] \in {HTTP_URL, URL}

\* languageFor: the fence label of a path
languageFor(name) == IF name \in {"a.md", "src/a.md", "top/sub/c.md"} THEN MARKDOWN ELSE ""

RECURSIVE replacePairs(_, _)
\* content.replace(/cc/g, 'c' + ZWSP + 'c') for the bracket character c
replacePairs(content, c) ==
    IF Len(content) < 2 THEN content
    ELSE IF content[1] = c /\ content[2] = c
    THEN <<c, ZW, c>> \o replacePairs(SubSeq(content, 3, Len(content)), c)
    ELSE <<content[1]>> \o replacePairs(Tail(content), c)

\* an escape that leaves closing brackets alone
escapeReferences_OpeningOnly(content) == replacePairs(content, LB)

\* expandFile: escape nested references with zero-width spaces
escapeReferences(content) == replacePairs(replacePairs(content, LB), RB)

\* length of the backtick run that starts at index i
runAt(content, i) ==
    Cardinality({j \in i..Len(content) : \A k \in i..j : content[k] = BT})

\* a fence that looks at runs of four or more only
fenceFor_FourOrMore(content) ==
    LET runs == {runAt(content, i) : i \in 1..Len(content)} \cap (4..Len(content))
        maxLength == IF runs = {} THEN 2 ELSE CHOOSE n \in runs : \A m \in runs : m <= n
    IN  [i \in 1..(maxLength + 1) |-> BT]

\* fenceFor: one backtick more than the longest run of three or more, at least three
fenceFor(content) ==
    LET runs == {runAt(content, i) : i \in 1..Len(content)} \cap (3..Len(content))
        maxLength == IF runs = {} THEN 2 ELSE CHOOSE n \in runs : \A m \in runs : m <= n
    IN  [i \in 1..(maxLength + 1) |-> BT]

Resolved(text, files) == [ok |-> TRUE, text |-> text, files |-> files, message |-> ""]
Failed(message) == [ok |-> FALSE, text |-> <<>>, files |-> 0, message |-> message]

\* the text expandFile returns for a readable file
fileBlock(name, content, turnNumber) ==
    <<NL, IF turnNumber > 0 THEN "### [" \o ToString(turnNumber) \o "] " ELSE "### ", name, NL>>
    \o fenceFor(content) \o <<languageFor(name), NL>>
    \o content \o <<NL>> \o fenceFor(content) \o <<NL>>

expandFile(e, path, turnNumber) ==
    IF Len(path) # 1 \/ path[1] \notin TextFiles \cup BinaryFiles THEN Failed("File not found")
    ELSE IF path[1] \in BinaryFiles THEN Failed("Binary file")
    ELSE Resolved(fileBlock(path[1], escapeReferences(fileText(e, path[1])), turnNumber), 1)

RECURSIVE fileSections(_, _, _)
\* expandDirectory: the blocks of the listed files, a file that fails skipped
fileSections(e, names, turnNumber) ==
    IF names = <<>> THEN <<>>
    ELSE (IF expandFile(e, <<Head(names)>>, turnNumber).ok
          THEN <<expandFile(e, <<Head(names)>>, turnNumber).text>> ELSE <<>>)
         \o fileSections(e, Tail(names), turnNumber)

RECURSIVE concat(_)
\* sections.join('')
concat(sections) ==
    IF sections = <<>> THEN <<>> ELSE Head(sections) \o concat(Tail(sections))

dirMarker(path, marker) == "<!-- dir: " \o path[1] \o marker \o " -->"

\* an expandDirectory that counts every entry the glob lists
directoryText_CountsEntries(e, path, recursive, sections) ==
    IF sections = <<>>
    THEN IF ~recursive /\ e.globDirs /\ globSubdirs(path) # {}
         THEN Resolved(<<NL, "### ">> \o path
                       \o <<SLASH, NL, NL, "*(contains only subdirectories - use ", LB, LB>>
                       \o path \o <<RECURSIVE_SUFFIX, RB, RB, " for recursive)*", NL>>, 0)
         ELSE Resolved(<<NL, "### ">> \o path \o <<SLASH, NL, NL, "*(empty directory)*", NL>>, 0)
    ELSE Resolved(<<dirMarker(path, IF recursive THEN RECURSIVE_SUFFIX ELSE SLASH), NL>>
                  \o trim(concat(sections)) \o <<NL, DirClose>>,
                  Len(globFiles(path, recursive)))

\* expandDirectory once the sections are known
directoryText(e, path, recursive, sections) ==
    IF sections = <<>>
    THEN IF ~recursive /\ e.globDirs /\ globSubdirs(path) # {}
         THEN Resolved(<<NL, "### ">> \o path
                       \o <<SLASH, NL, NL, "*(contains only subdirectories - use ", LB, LB>>
                       \o path \o <<RECURSIVE_SUFFIX, RB, RB, " for recursive)*", NL>>, 0)
         ELSE Resolved(<<NL, "### ">> \o path \o <<SLASH, NL, NL, "*(empty directory)*", NL>>, 0)
    ELSE Resolved(<<dirMarker(path, IF recursive THEN RECURSIVE_SUFFIX ELSE SLASH), NL>>
                  \o trim(concat(sections)) \o <<NL, DirClose>>,
                  Len(sections))

expandDirectory(e, path, recursive, turnNumber) ==
    directoryText(e, path, recursive,
                  fileSections(e, globFiles(path, recursive), turnNumber))

urlMarker(url) == "<!-- url: " \o url[1] \o " -->"

\* expandUrl answers for the one URL of the model with a page without title
expandUrlReference(e, url) ==
    IF ~e.web THEN Resolved(<<LB, LB>> \o url \o <<RB, RB>>, 0)
    ELSE IF url # <<URL>> THEN Failed("fetch failed")
    ELSE Resolved(<<NL, urlMarker(url), NL, NL>> \o e.page \o <<NL, NL, UrlClose, NL>>, 1)

\* a classification that looks at the suffix before the scheme
expandReference_SuffixFirst(e, ref, turnNumber) ==
    IF ref[Len(ref)] = RECURSIVE_SUFFIX
    THEN expandDirectory(e, SubSeq(ref, 1, Len(ref) - 1), TRUE, turnNumber)
    ELSE IF ref[Len(ref)] = SLASH
    THEN expandDirectory(e, SubSeq(ref, 1, Len(ref) - 1), FALSE, turnNumber)
    ELSE IF isUrl(ref) THEN expandUrlReference(e, ref)
    ELSE IF Len(ref) = 1 /\ ref[1] \in Directories
    THEN expandDirectory(e, ref, FALSE, turnNumber)
    ELSE expandFile(e, ref, turnNumber)

expandReference(e, ref, turnNumber) ==
    IF isUrl(ref) THEN expandUrlReference(e, ref)
    ELSE IF ref[Len(ref)] = RECURSIVE_SUFFIX
    THEN expandDirectory(e, SubSeq(ref, 1, Len(ref) - 1), TRUE, turnNumber)
    ELSE IF ref[Len(ref)] = SLASH
    THEN expandDirectory(e, SubSeq(ref, 1, Len(ref) - 1), FALSE, turnNumber)
    ELSE IF Len(ref) = 1 /\ ref[1] \in Directories
    THEN expandDirectory(e, ref, FALSE, turnNumber)
    ELSE expandFile(e, ref, turnNumber)

\* a payload scan that stops at a closing bracket only
firstStop_ClosingOnly(content, k) ==
    IF \A i \in k..Len(content) : content[i] # RB THEN Len(content) + 1
    ELSE CHOOSE i \in k..Len(content) :
             content[i] = RB /\ \A j \in k..(i - 1) : content[j] # RB

\* first index from k on that holds a closing bracket or a zero-width space
firstStop(content, k) ==
    IF \A i \in k..Len(content) : content[i] \notin {RB, ZW} THEN Len(content) + 1
    ELSE CHOOSE i \in k..Len(content) :
             content[i] \in {RB, ZW} /\ \A j \in k..(i - 1) : content[j] \notin {RB, ZW}

\* /\[\[([^\]\u200B]+)\]\]/ tried at index i: the index of the last token of
\* the match, 0 when there is no match at i
matchEnd(content, i) ==
    IF i + 4 <= Len(content) /\ content[i] = LB /\ content[i + 1] = LB
       /\ firstStop(content, i + 2) > i + 2
       /\ firstStop(content, i + 2) + 1 <= Len(content)
       /\ content[firstStop(content, i + 2)] = RB
       /\ content[firstStop(content, i + 2) + 1] = RB
    THEN firstStop(content, i + 2) + 1
    ELSE 0

RECURSIVE matchAllFrom(_, _)
\* content.matchAll(pattern): the matches, as pairs of first and last index
matchAllFrom(content, i) ==
    IF i + 4 > Len(content) THEN <<>>
    ELSE IF matchEnd(content, i) > 0
    THEN <<[from |-> i, to |-> matchEnd(content, i)]>>
         \o matchAllFrom(content, matchEnd(content, i) + 1)
    ELSE matchAllFrom(content, i + 1)

matchAll(content) == matchAllFrom(content, 1)

\* String.prototype.indexOf, 1-based, 0 when absent
indexOf(text, sub) ==
    IF \E i \in 1..(Len(text) - Len(sub) + 1) : SubSeq(text, i, i + Len(sub) - 1) = sub
    THEN CHOOSE i \in 1..(Len(text) - Len(sub) + 1) :
             /\ SubSeq(text, i, i + Len(sub) - 1) = sub
             /\ \A j \in 1..(i - 1) : SubSeq(text, j, j + Len(sub) - 1) # sub
    ELSE 0

\* text.replace(match, () => replacement): the first occurrence, literally
replaceFirst(text, match, replacement) ==
    IF indexOf(text, match) = 0 THEN text
    ELSE SubSeq(text, 1, indexOf(text, match) - 1) \o replacement
         \o SubSeq(text, indexOf(text, match) + Len(match), Len(text))

RECURSIVE substitute(_, _)
\* a replacement string as String.replace reads it: `$&` stands for the match
substitute(replacement, match) ==
    IF replacement = <<>> THEN <<>>
    ELSE (IF Head(replacement) = PATTERN_PAYLOAD THEN match ELSE <<Head(replacement)>>)
         \o substitute(Tail(replacement), match)

\* `\n<cross mark> Error: ${ref} - ${message}\n`
errorAnnotation(ref, message) == <<NL, "Error: ">> \o ref \o <<" - ", message, NL>>

\* one iteration of the loop of expandReferences
expandOne(acc, match, ref, r) ==
    IF r.ok
    THEN [expanded |-> replaceFirst(acc.expanded, match, r.text),
          fileCount |-> acc.fileCount + r.files]
    ELSE [expanded |-> replaceFirst(acc.expanded, match,
                           substitute(errorAnnotation(ref, r.message), match)),
          fileCount |-> acc.fileCount]

RECURSIVE expandMatches(_, _, _, _, _, _)
\* the loop of expandReferences over the matches of the original content
expandMatches(e, content, matches, k, acc, turnNumber) ==
    IF k > Len(matches) THEN acc
    ELSE expandMatches(e, content, matches, k + 1,
             expandOne(acc,
                 SubSeq(content, matches[k].from, matches[k].to),
                 SubSeq(content, matches[k].from + 2, matches[k].to - 2),
                 expandReference(e, SubSeq(content, matches[k].from + 2, matches[k].to - 2),
                                 turnNumber)),
             turnNumber)

expandReferences(e, content, turnNumber) ==
    expandMatches(e, content, matchAll(content), 1,
                  [expanded |-> content, fileCount |-> 0], turnNumber)

\* output.fetchError(ref, message): the line printed for a reference that failed
fetchError(ref, message) == [level |-> "fetchError", ref |-> ref, message |-> message]

RECURSIVE fetchErrorsFrom(_, _, _, _, _)
fetchErrorsFrom(e, content, matches, k, turnNumber) ==
    IF k > Len(matches) THEN <<>>
    ELSE (IF expandReference(e, SubSeq(content, matches[k].from + 2, matches[k].to - 2),
                             turnNumber).ok
          THEN <<>>
          ELSE <<fetchError(SubSeq(content, matches[k].from + 2, matches[k].to - 2),
                            expandReference(e, SubSeq(content, matches[k].from + 2,
                                                      matches[k].to - 2),
                                            turnNumber).message)>>)
         \o fetchErrorsFrom(e, content, matches, k + 1, turnNumber)

\* what a call of expandReferences prints: one fetchError for each reference
\* that failed (expandUrl prints it for a URL, the catch for the others)
fetchErrors(e, content, turnNumber) ==
    fetchErrorsFrom(e, content, matchAll(content), 1, turnNumber)

----------------------------------------------------------------------------
(* Specification of the escaping of embedded file content *)

MaxFileLen == 6        \* characters of the file a.md

FileChars == {LB, RB, ZW, "x"}

Reference(name) == <<LB, LB>> \o name \o <<RB, RB>>

\* a character is appended to the file a.md
WriteFileChar(c) ==
    /\ pc = "edit"
    /\ Len(env.fileText) < MaxFileLen
    /\ env' = [env EXCEPT !.fileText = @ \o <<c>>]
    /\ UNCHANGED <<file, pc, session, writer, interrupted, sigintCount, stream, chunks,
                   before, refs, result, error, output, tmp, retry>>

\* expandReferences on the text refs
Expand ==
    /\ pc = "edit"
    /\ result' = expandReferences(env, refs, 0)
    /\ output' = output \o fetchErrors(env, refs, 0)
    /\ pc' = "expanded"
    /\ UNCHANGED <<file, session, writer, interrupted, sigintCount, stream, chunks,
                   before, refs, env, error, tmp, retry>>

\* expandReferences on the text the previous call returned
ExpandAgain ==
    /\ pc = "expanded"
    /\ refs' = result.expanded
    /\ result' = expandReferences(env, result.expanded, 0)
    /\ output' = output \o fetchErrors(env, result.expanded, 0)
    /\ pc' = "again"
    /\ UNCHANGED <<file, session, writer, interrupted, sigintCount, stream, chunks,
                   before, env, error, tmp, retry>>

InitEscape ==
    /\ file = InitFile
    /\ pc = "edit"
    /\ session = NoSession
    /\ writer = NoWriter
    /\ interrupted = FALSE
    /\ sigintCount = 0
    /\ stream = NoStream
    /\ chunks = <<>>
    /\ before = <<>>
    /\ refs = Reference(<<"a.md">>)
    /\ result = NoResult
    /\ error = NoError
    /\ output = <<>>
    /\ tmp = NoTmp
    /\ retry = NoRetry
    /\ env = [DefaultEnv EXCEPT !.fileText = <<>>]

NextEscape ==
    \/ \E c \in FileChars : WriteFileChar(c)
    \/ Expand
    \/ ExpandAgain

SpecEscape == InitEscape /\ [][NextEscape]_vars

\* the part of an expanded file block that is the embedded content
EmbeddedContent(block) ==
    SubSeq(block, 5 + Len(fenceFor(escapeReferences(env.fileText))) + 2,
                  Len(block) - Len(fenceFor(escapeReferences(env.fileText))) - 2)

\* C8: after the escaping of expandFile the reference pattern has no match in
\* the embedded content of a file, whatever brackets the file holds, and
\* expanding the returned text again expands nothing.
C8_EscapedContentHasNoReference ==
    /\ pc = "expanded" =>
          /\ result.fileCount = 1
          /\ EmbeddedContent(result.expanded) = escapeReferences(env.fileText)
          /\ matchAll(result.expanded) = <<>>
    /\ pc = "again" => result.fileCount = 0 /\ result.expanded = refs

\* a file with a run of three opening brackets around a payload was embedded
\* and expanded a second time
C8_Witness ==
    /\ pc = "again"
    /\ env.fileText = <<LB, LB, LB, "x", RB, RB>>

----------------------------------------------------------------------------
(* Specification of expandReferences over texts with several references *)

MaxRefs == 2           \* items of the text given to expandReferences

RefItems ==
    { Reference(<<"a.md">>), Reference(<<"none.md">>), Reference(<<PATTERN_PAYLOAD>>),
      Reference(<<"b.bin">>), Reference(<<"src", SLASH>>), Reference(<<"empty", SLASH>>),
      Reference(<<"top", SLASH>>), Reference(<<"top", RECURSIVE_SUFFIX>>),
      Reference(<<URL>>), <<"x">> }

ExpandEnvs ==
    { [fileText |-> Reference(<<"a.md">>), page |-> p, web |-> w, globDirs |-> g] :
          p \in {<<"x">>, Reference(<<"a.md">>)}, w \in BOOLEAN, g \in BOOLEAN }

\* an item and a newline are appended to the text
AddItem(item) ==
    /\ pc = "edit"
    /\ Cardinality({i \in 1..Len(refs) : refs[i] = NL}) < MaxRefs
    /\ refs' = refs \o item \o <<NL>>
    /\ UNCHANGED <<file, pc, session, writer, interrupted, sigintCount, stream, chunks,
                   before, result, env, error, output, tmp, retry>>

InitExpand == file = InitFile /\ IdleProgram /\ env \in ExpandEnvs

NextExpand ==
    \/ \E item \in RefItems : AddItem(item)
    \/ Expand
    \/ ExpandAgain

SpecExpand == InitExpand /\ [][NextExpand]_vars

\* C7: expandReferences is idempotent: applied to its own output it resolves
\* nothing (fileCount 0) and returns that output unchanged.
C7_ExpansionIsIdempotent ==
    pc = "again" => result.fileCount = 0 /\ result.expanded = refs

\* what a reference stands for once resolved: its text, or the error annotation
ReplacementOf(ref) ==
    IF expandReference(env, ref, 0).ok THEN expandReference(env, ref, 0).text
    ELSE <<NL, "Error: ">> \o ref \o <<" - ", expandReference(env, ref, 0).message, NL>>

RECURSIVE SubstitutedInPlace(_, _, _, _)
\* the text with every match replaced at its own position
SubstitutedInPlace(content, matches, k, pos) ==
    IF k > Len(matches) THEN SubSeq(content, pos, Len(content))
    ELSE SubSeq(content, pos, matches[k].from - 1)
         \o ReplacementOf(SubSeq(content, matches[k].from + 2, matches[k].to - 2))
         \o SubstitutedInPlace(content, matches, k + 1, matches[k].to + 1)

RECURSIVE ResolvedCount(_, _, _)
ResolvedCount(content, matches, k) ==
    IF k > Len(matches) THEN 0
    ELSE expandReference(env, SubSeq(content, matches[k].from + 2, matches[k].to - 2), 0).files
         + ResolvedCount(content, matches, k + 1)

\* C9: per-reference isolation: a reference that fails becomes an inline
\* `Error: ref - message` annotation and counts 0, and every other reference
\* of the text is still substituted at its own position and counted.
C9_EachReferenceAtItsOwnPosition ==
    pc = "expanded" =>
        /\ result.expanded = SubstitutedInPlace(refs, matchAll(refs), 1, 1)
        /\ result.fileCount = ResolvedCount(refs, matchAll(refs), 1)

----------------------------------------------------------------------------
(* Specification of the parser over documents with several turns *)

MaxTurnLines == 5      \* lines a user types into a document with several turns

TurnLines ==
    { <<HeaderText(2, "AI")>>, <<HeaderText(3, "Human")>>, <<"x">>, <<>> }

\* a document without any turn header: the user replaced the header by text
HeaderlessFile == <<"x", NL, NL, NL>>

InitTurns == file \in {InitFile, HeaderlessFile} /\ Idle

NextTurns ==
    \/ \E line \in TurnLines : TypeLine(line, MaxTurnLines)
    \/ ReadSession

SpecTurns == InitTurns /\ [][NextTurns]_vars

HumanTurns(turns) == {i \in 1..Len(turns) : turns[i].role = "Human"}

\* C11: lastHumanTurnIndex is the index of the last Human turn of `turns`, and
\* it is -1 exactly when `turns` holds no Human turn; a document without any
\* turn header parses to zero turns.
C11_LastHumanTurnIndex ==
    pc = "parsed" =>
        /\ session.lastHumanTurnIndex = -1 <=> HumanTurns(session.turns) = {}
        /\ HumanTurns(session.turns) # {} =>
              /\ session.lastHumanTurnIndex + 1 \in HumanTurns(session.turns)
              /\ \A i \in HumanTurns(session.turns) : i <= session.lastHumanTurnIndex + 1
        /\ (\A i \in 1..Len(split(file)) : ~HeaderLike(split(file)[i])) =>
              session.turns = <<>> /\ session.lastHumanTurnIndex = -1

\* Human, AI, Human: the index is that of the third turn
C11_Witness ==
    /\ pc = "parsed"
    /\ Len(session.turns) = 3
    /\ session.turns[2].role = "AI"
    /\ session.lastHumanTurnIndex = 2

----------------------------------------------------------------------------
(* Expansion of the last Human turn, and the ask command of commands/ask.ts *)

\* /\[\[([^\]]+)\]\]/.test(content): the pattern of expandAndSaveSession, whose
\* payload class excludes the closing bracket only
looseMatchAt(content, i) ==
    /\ i + 4 <= Len(content)
    /\ content[i] = LB /\ content[i + 1] = LB
    /\ \E j \in (i + 3)..(Len(content) - 1) :
           /\ content[j] = RB /\ content[j + 1] = RB
           /\ \A k \in (i + 2)..(j - 1) : content[k] # RB

hasLooseMatch(content) == \E i \in 1..Len(content) : looseMatchAt(content, i)

\* fullContent.lastIndexOf(turnHeader), 1-based, 0 when absent
lastIndexOfHeader(fullContent, turnHeader) ==
    IF \A i \in 1..Len(fullContent) : fullContent[i] # turnHeader THEN 0
    ELSE CHOOSE i \in 1..Len(fullContent) :
             /\ fullContent[i] = turnHeader
             /\ \A j \in (i + 1)..Len(fullContent) : fullContent[j] # turnHeader

\* the token starts with `# [`
startsTurn(token) == \E n \in 0..(MaxTurnNumber + 1), r \in Roles : token = HeaderText(n, r)

\* fullContent.indexOf('\n# [', afterHeader), 1-based; Len + 1 when absent,
\* which is the end of the turn the code takes in that case
endOfTurn(fullContent, afterHeader) ==
    IF \E i \in afterHeader..(Len(fullContent) - 1) :
           fullContent[i] = NL /\ startsTurn(fullContent[i + 1])
    THEN CHOOSE i \in afterHeader..(Len(fullContent) - 1) :
             /\ fullContent[i] = NL /\ startsTurn(fullContent[i + 1])
             /\ \A j \in afterHeader..(i - 1) :
                    ~(fullContent[j] = NL /\ startsTurn(fullContent[j + 1]))
    ELSE Len(fullContent) + 1

\* the file content expandAndSaveSession writes; headerIndex > 0
newContent(fullContent, headerIndex, expanded) ==
    SubSeq(fullContent, 1, headerIndex) \o <<NL, NL>> \o trim(expanded) \o <<NL>>
    \o SubSeq(fullContent, endOfTurn(fullContent, headerIndex + 1), Len(fullContent))

Unexpanded(fullContent) ==
    [expanded |-> FALSE, fileCount |-> 0, content |-> fullContent, error |-> NoError]

\* a save that does not look at the count of resolved references
saveExpanded_AlwaysWrites(fullContent, lastHumanTurn, r) ==
    IF lastIndexOfHeader(fullContent, HeaderText(lastHumanTurn.number, "Human")) = 0
    THEN [Unexpanded(fullContent) EXCEPT !.error = "HeaderNotFound"]
    ELSE [expanded |-> TRUE, fileCount |-> r.fileCount,
          content |-> newContent(fullContent,
                          lastIndexOfHeader(fullContent,
                              HeaderText(lastHumanTurn.number, "Human")),
                          r.expanded),
          error |-> NoError]

\* expandAndSaveSession once expandReferences has returned r
saveExpanded(fullContent, lastHumanTurn, r) ==
    IF r.fileCount = 0 THEN Unexpanded(fullContent)
    ELSE IF lastIndexOfHeader(fullContent, HeaderText(lastHumanTurn.number, "Human")) = 0
    THEN [Unexpanded(fullContent) EXCEPT !.error = "HeaderNotFound"]
    ELSE [expanded |-> TRUE, fileCount |-> r.fileCount,
          content |-> newContent(fullContent,
                          lastIndexOfHeader(fullContent,
                              HeaderText(lastHumanTurn.number, "Human")),
                          r.expanded),
          error |-> NoError]

expandLastHumanTurn(e, fullContent, lastHumanTurn) ==
    IF ~hasLooseMatch(lastHumanTurn.content) THEN Unexpanded(fullContent)
    ELSE saveExpanded(fullContent, lastHumanTurn,
             expandReferences(e, lastHumanTurn.content, lastHumanTurn.number))

\* the value it returns, with the file content it leaves on disk
expandAndSaveSession(e, fullContent, s) ==
    IF s.lastHumanTurnIndex = -1 THEN Unexpanded(fullContent)
    ELSE expandLastHumanTurn(e, fullContent, s.turns[s.lastHumanTurnIndex + 1])

\* what expandAndSaveSession prints through its call of expandReferences
expandOutput(e, s) ==
    IF s.lastHumanTurnIndex = -1 THEN <<>>
    ELSE IF ~hasLooseMatch(s.turns[s.lastHumanTurnIndex + 1].content) THEN <<>>
    ELSE fetchErrors(e, s.turns[s.lastHumanTurnIndex + 1].content,
                     s.turns[s.lastHumanTurnIndex + 1].number)

\* the writer of the run: SessionWriter.begin for the turn after the last Human turn
beginWriter(s) ==
    [headerWritten |-> TRUE, contentWritten |-> FALSE,
     turnNumber |-> s.turns[s.lastHumanTurnIndex + 1].number + 1]

\* ask run of commands/ask.ts up to the creation of the writer: readSession,
\* validateSession, expandAndSaveSession and the second readSession,
\* SessionWriter.begin
AskRun ==
    /\ pc = "edit"
    /\ before' = file
    /\ IF validateSession(parseSession(file)) # "ok"
       THEN /\ session' = parseSession(file)
            /\ pc' = "exited"
            /\ error' = validateSession(session')
            /\ UNCHANGED <<file, writer, stream, result, output, tmp, retry>>
       ELSE /\ result' = expandAndSaveSession(env, file, parseSession(file))
            /\ output' = output \o expandOutput(env, parseSession(file))
            /\ session' = parseSession(result'.content)
            /\ IF result'.error # NoError
               THEN /\ pc' = "exited"
                    /\ error' = result'.error
                    /\ UNCHANGED <<file, writer, stream>>
               ELSE /\ pc' = "streaming"
                    /\ writer' = beginWriter(session')
                    /\ file' = writeHeader(result'.content, writer'.turnNumber)
                    /\ stream' = [phase |-> "start", count |-> 0]
                    /\ UNCHANGED error
    /\ UNCHANGED <<interrupted, sigintCount, chunks, refs, env, tmp, retry>>

MaxGuardLines == 4     \* lines a user types before running ask

GuardLines ==
    { <<HeaderText(2, "AI")>>, <<HeaderText(3, "Human")>>, <<"x">>, Reference(<<"a.md">>) }

InitGuard == file = InitFile /\ Idle

NextGuard ==
    \/ \E line \in GuardLines : TypeLine(line, MaxGuardLines)
    \/ AskRun

SpecGuard == InitGuard /\ [][NextGuard]_vars

\* the last turn of s is an AI turn numbered above the last Human turn
AnsweredSession(s) ==
    /\ HumanTurns(s.turns) # {}
    /\ s.turns[Len(s.turns)].role = "AI"
    /\ \E h \in HumanTurns(s.turns) :
           /\ \A i \in HumanTurns(s.turns) : i <= h
           /\ s.turns[Len(s.turns)].number > s.turns[h].number

BlankLastHumanTurn(lines) ==
    \E h \in RealHeaders(lines) :
        /\ \E n \in 0..(MaxTurnNumber + 1) : lines[h] = <<HeaderText(n, "Human")>>
        /\ \A g \in RealHeaders(lines) :
               g > h => \E n \in 0..(MaxTurnNumber + 1) : lines[g] = <<HeaderText(n, "AI")>>
        /\ \A i \in (h + 1)..Len(lines) :
               (\A g \in RealHeaders(lines) : g <= h \/ g > i) => trim(lines[i]) = <<>>

\* C13: for a document whose last Human header is followed by blank content
\* only, parsing and validateSession fail with the EmptyTurn error.
C13_BlankHumanTurnIsEmptyTurn ==
    (pc # "edit" /\ BlankLastHumanTurn(split(before))) =>
        pc = "exited" /\ error = "EmptyTurn"

----------------------------------------------------------------------------
(* Claims about the streaming writer during one ask run *)

\* C14: when the model produces no output chunk, the session file is, after
\* end(), the file that existed before the writer was created.
C14_NoOutputLeavesFileUntouched ==
    (pc = "done" /\ stream.count = 0) => file = before

\* what end(interrupted) appends once the header is written: the marker if and
\* only if the answer was interrupted after at least one chunk, then the
\* closing fence and the header of Human turn N+1 with a blank line
ClaimedClosing ==
    (IF interrupted /\ chunks # <<>> THEN <<NL, "[Interrupted]">> ELSE <<>>)
    \o ClosedTurnOpenHuman(writer.turnNumber)

\* C15: end(interrupted) after the header was written appends the
\* `[Interrupted]` marker if and only if interrupted is true and a chunk was
\* written, and then always the closing fence and the header `# [N+1] Human`
\* followed by a blank line.
C15_EndAppendsClosing ==
    [][(pc = "streaming" /\ pc' = "done") => file' = file \o ClaimedClosing']_vars

\* an interrupted answer with a chunk written was closed with the marker
C15_Witness ==
    /\ pc = "done"
    /\ interrupted
    /\ chunks # <<>>
    /\ EndsWith(file, <<NL, "[Interrupted]">> \o ClosedTurnOpenHuman(writer.turnNumber))

IsPrefix(s, t) == Len(s) <= Len(t) /\ SubSeq(t, 1, Len(s)) = s

\* C16: append-only streaming: once the header is written the file is
\* trimEnd(original) + header + the chunks written so far (+ the closing after
\* end), and every step of the writer after the header only appends.
C16_AppendOnlyStreaming ==
    /\ [](writer.headerWritten =>
             file = trimEnd(before)
                    \o <<NL, NL, HeaderText(writer.turnNumber, "AI"), NL, NL,
                         BT, BT, BT, BT, MARKDOWN, NL>>
                    \o chunks
                    \o (IF pc \in {"done", "reparsed"} THEN ClaimedClosing ELSE <<>>))
    /\ [][writer.headerWritten => IsPrefix(file, file')]_vars

\* two chunks were written one after the other and the answer was ended
C16_Witness ==
    /\ pc = "done"
    /\ stream.count >= 2
    /\ Len(chunks) >= 2
    /\ ~interrupted

----------------------------------------------------------------------------
(* Specification of expandReferences over texts typed character by character *)

MaxTextLen == 6        \* characters of the text given to expandReferences

TextChars == {LB, RB, ZW, "a.md"}

\* a character (or the name a.md) is appended to the text
TypeChar(c) ==
    /\ pc = "edit"
    /\ Len(refs) < MaxTextLen
    /\ refs' = refs \o <<c>>
    /\ UNCHANGED <<file, pc, session, writer, interrupted, sigintCount, stream, chunks,
                   before, result, env, error, output, tmp, retry>>

InitText == file = InitFile /\ Idle

NextText == (\E c \in TextChars : TypeChar(c)) \/ Expand

SpecText == InitText /\ [][NextText]_vars

\* two opening brackets at i, a non-empty payload without closing bracket and
\* without zero-width space, and two closing brackets ending at j
IsReferenceSpan(text, i, j) ==
    /\ i + 4 <= j
    /\ text[i] = LB /\ text[i + 1] = LB
    /\ text[j - 1] = RB /\ text[j] = RB
    /\ \A k \in (i + 2)..(j - 2) : text[k] # RB /\ text[k] # ZW

HasUnescapedReference(text) ==
    \E i \in 1..Len(text), j \in 1..Len(text) : IsReferenceSpan(text, i, j)

\* C17: no-op law: for a text without an unescaped [[payload]] reference,
\* expandReferences returns fileCount 0 and the text it was given.
C17_NoReferenceNoChange ==
    (pc = "expanded" /\ ~HasUnescapedReference(refs)) =>
        result.fileCount = 0 /\ result.expanded = refs

\* a reference escaped by a zero-width space in its payload went through
\* expandReferences
C17_Witness ==
    /\ pc = "expanded"
    /\ refs = <<LB, LB, ZW, "a.md", RB, RB>>
    /\ ~HasUnescapedReference(refs)
    /\ result.expanded = refs

----------------------------------------------------------------------------
(* Specification of the wrapping of embedded file content *)

EmbedChars == {BT, NL, "x"}

InitEmbed == InitEscape

NextEmbed == (\E c \in EmbedChars : WriteFileChar(c)) \/ Expand

SpecEmbed == InitEmbed /\ [][NextEmbed]_vars

\* text[i..i+n-1] is made of backticks
AllBackticks(text, i, n) == \A k \in i..(i + n - 1) : text[k] = BT

\* the length of the longest run of backticks of a text, 0 when it has none
LongestBacktickRun(text) ==
    CHOOSE n \in 0..Len(text) :
        /\ \E i \in 1..(Len(text) - n + 1) : AllBackticks(text, i, n)
        /\ \A m \in (n + 1)..Len(text) :
               ~\E i \in 1..(Len(text) - m + 1) : AllBackticks(text, i, m)

Max(a, b) == IF a >= b THEN a ELSE b

ClaimedFence(content) == [i \in 1..(Max(LongestBacktickRun(content), 2) + 1) |-> BT]

\* C18: fence-length law: the fence that wraps an embedded file has
\* max(longest backtick run of the content, 2) + 1 backticks, so at least
\* three and more than every backtick run of the content.
C18_FenceLengthLaw ==
    pc = "expanded" =>
        /\ fenceFor(env.fileText) = ClaimedFence(env.fileText)
        /\ Len(fenceFor(env.fileText)) >= 3
        /\ Len(fenceFor(env.fileText)) > LongestBacktickRun(env.fileText)
        /\ result.expanded = <<NL, "### ", "a.md", NL>>
                              \o ClaimedFence(env.fileText) \o <<MARKDOWN, NL>>
                              \o env.fileText \o <<NL>>
                              \o ClaimedFence(env.fileText) \o <<NL>>

\* a file with a run of two and a run of three backticks was embedded in a
\* fence of four
C18_Witness ==
    /\ pc = "expanded"
    /\ env.fileText = <<BT, BT, "x", BT, BT, BT>>
    /\ SubSeq(result.expanded, 5, 9) = <<BT, BT, BT, BT, MARKDOWN>>

----------------------------------------------------------------------------
(* Directory references that resolve no file *)

DirectoryReferences ==
    {<<d, suffix>> : d \in Directories, suffix \in {SLASH, RECURSIVE_SUFFIX}}

\* no entry the glob lists under the directory can be embedded
ResolvesNoFile(dir, recursive) ==
    \A i \in 1..Len(globFiles(<<dir>>, recursive)) :
        globFiles(<<dir>>, recursive)[i] \notin TextFiles

EmptyDirectoryPlaceholder(dir) ==
    <<NL, "### ", dir, SLASH, NL, NL, "*(empty directory)*", NL>>

OnlySubdirectoriesPlaceholder(dir) ==
    <<NL, "### ", dir, SLASH, NL, NL, "*(contains only subdirectories - use ",
      LB, LB, dir, RECURSIVE_SUFFIX, RB, RB, " for recursive)*", NL>>

ClaimedPlaceholder(dir, recursive) ==
    IF ~recursive /\ globSubdirs(<<dir>>) # {}
    THEN OnlySubdirectoriesPlaceholder(dir)
    ELSE EmptyDirectoryPlaceholder(dir)

\* C19: a directory reference that resolves zero files counts 0 and becomes
\* a placeholder without dir markers: "empty directory" when the directory
\* has no subdirectory either, "contains only subdirectories" when a
\* non-recursive reference has at least one.
C19_DirectoryPlaceholders ==
    \A ref \in DirectoryReferences :
        (/\ pc = "expanded"
         /\ refs = Reference(ref) \o <<NL>>
         /\ ResolvesNoFile(ref[1], ref[2] = RECURSIVE_SUFFIX))
        => /\ result.fileCount = 0
           /\ result.expanded = ClaimedPlaceholder(ref[1], ref[2] = RECURSIVE_SUFFIX) \o <<NL>>

----------------------------------------------------------------------------
(* Refresh of expanded content *)

DirPatterns == {<<d, suffix>> : d \in Directories, suffix \in {SLASH, RECURSIVE_SUFFIX}}

\* line.match(/^<!-- dir: (.+) -->$/)
isDirStart(line) == \E p \in DirPatterns : line = <<dirMarker(<<p[1]>>, p[2])>>

\* startMatch[1].trim()
dirPattern(line) == CHOOSE p \in DirPatterns : line = <<dirMarker(<<p[1]>>, p[2])>>

\* the first line after i whose trimmed text is the closing tag, 0 when there is none
dirEnd(lines, i) ==
    IF \E j \in (i + 1)..Len(lines) : trim(lines[j]) = <<DirClose>>
    THEN CHOOSE j \in (i + 1)..Len(lines) :
             /\ trim(lines[j]) = <<DirClose>>
             /\ \A k \in (i + 1)..(j - 1) : trim(lines[k]) # <<DirClose>>
    ELSE 0

RECURSIVE dirMarkersFrom(_, _)
dirMarkersFrom(lines, i) ==
    IF i > Len(lines) THEN <<>>
    ELSE IF isDirStart(lines[i]) /\ dirEnd(lines, i) > 0
    THEN <<[type |-> "directory", pattern |-> dirPattern(lines[i]),
            startLine |-> i, endLine |-> dirEnd(lines, i)]>>
         \o dirMarkersFrom(lines, dirEnd(lines, i) + 1)
    ELSE dirMarkersFrom(lines, i + 1)

findDirectoryMarkers(lines) == dirMarkersFrom(lines, 1)

\* the headings expandFile writes for a turn number above 0
NumberedHeadings == {"### [" \o ToString(n) \o "] " : n \in 1..(MaxTurnNumber + 1)}

headingNumber(token) ==
    CHOOSE n \in 1..(MaxTurnNumber + 1) : token = "### [" \o ToString(n) \o "] "

\* line.startsWith('### ')
isHeading(line) == line # <<>> /\ (line[1] = "### " \/ line[1] \in NumberedHeadings)

\* line.substring(4).trim()
filePathOf(line) ==
    trim(IF line[1] = "### " THEN Tail(line)
         ELSE <<LB, ToString(headingNumber(line[1])), RB, SP>> \o Tail(line))

\* the first line from i on that equals the fence, 0 when there is none
blockEnd(lines, i, fence) ==
    IF \E j \in i..Len(lines) : lines[j] = fence
    THEN CHOOSE j \in i..Len(lines) :
             lines[j] = fence /\ \A k \in i..(j - 1) : lines[k] # fence
    ELSE 0

RECURSIVE fileBlocksFrom(_, _)
fileBlocksFrom(lines, i) ==
    IF i > Len(lines) THEN <<>>
    ELSE IF ~isHeading(lines[i]) THEN fileBlocksFrom(lines, i + 1)
    ELSE IF i + 1 > Len(lines) THEN <<>>
    ELSE IF fenceMatch(lines[i + 1]) = 0 THEN fileBlocksFrom(lines, i + 1)
    ELSE IF blockEnd(lines, i + 2, [k \in 1..fenceMatch(lines[i + 1]) |-> BT]) = 0 THEN <<>>
    ELSE <<[type |-> "file", pattern |-> filePathOf(lines[i]), startLine |-> i,
            endLine |-> blockEnd(lines, i + 2, [k \in 1..fenceMatch(lines[i + 1]) |-> BT])]>>
         \o fileBlocksFrom(lines,
                blockEnd(lines, i + 2, [k \in 1..fenceMatch(lines[i + 1]) |-> BT]) + 1)

findFileBlocks(lines) == fileBlocksFrom(lines, 1)

\* a file block strictly inside one of the directory expansions
insideDir(block, dirMarkers) ==
    \E d \in 1..Len(dirMarkers) :
        block.startLine > dirMarkers[d].startLine /\ block.endLine < dirMarkers[d].endLine

RECURSIVE standalone(_, _)
standalone(blocks, dirMarkers) ==
    IF blocks = <<>> THEN <<>>
    ELSE (IF insideDir(Head(blocks), dirMarkers) THEN <<>> ELSE <<Head(blocks)>>)
         \o standalone(Tail(blocks), dirMarkers)

\* the directory expansions first, then the file blocks outside of them
findAllExpandedContent(lines) ==
    findDirectoryMarkers(lines) \o standalone(findFileBlocks(lines), findDirectoryMarkers(lines))

\* lines.splice(start, end - start + 1, ...newLines), with the clamping of splice
splice(lines, start, end, newLines) ==
    IF start > Len(lines) THEN lines \o newLines
    ELSE SubSeq(lines, 1, start - 1) \o newLines
         \o SubSeq(lines, (IF end < start THEN start ELSE end + 1), Len(lines))

\* line.includes('<!-- dir:')
includesDirMarker(line) ==
    \E k \in 1..Len(line), p \in DirPatterns : line[k] = dirMarker(<<p[1]>>, p[2])

\* findIndex, 1-based, 0 when no line qualifies
startIdx(expandedLines) ==
    IF \E i \in 1..Len(expandedLines) : includesDirMarker(expandedLines[i])
    THEN CHOOSE i \in 1..Len(expandedLines) :
             /\ includesDirMarker(expandedLines[i])
             /\ \A j \in 1..(i - 1) : ~includesDirMarker(expandedLines[j])
    ELSE 0

endIdx(expandedLines) ==
    IF \E i \in 1..Len(expandedLines) : trim(expandedLines[i]) = <<DirClose>>
    THEN CHOOSE i \in 1..Len(expandedLines) :
             /\ trim(expandedLines[i]) = <<DirClose>>
             /\ \A j \in 1..(i - 1) : trim(expandedLines[j]) # <<DirClose>>
    ELSE 0

\* the lines of a re-expanded file without a blank first and a blank last line
withoutBlankEnds(expandedLines) ==
    SubSeq(expandedLines,
           IF trim(expandedLines[1]) = <<>> THEN 2 ELSE 1,
           IF Len(expandedLines) > 1 /\ trim(expandedLines[Len(expandedLines)]) = <<>>
           THEN Len(expandedLines) - 1 ELSE Len(expandedLines))

\* the body of the loop for a directory expansion, r the result of expandReferences
refreshDirectory(acc, expansion, r, expandedLines) ==
    IF startIdx(expandedLines) # 0 /\ endIdx(expandedLines) # 0
    THEN [lines |-> splice(acc.lines, expansion.startLine, expansion.endLine,
                           SubSeq(expandedLines, startIdx(expandedLines),
                                  endIdx(expandedLines))),
          fileCount |-> acc.fileCount + r.fileCount]
    ELSE acc

\* the body of the loop for a file block
refreshFile(acc, expansion, r) ==
    IF r.fileCount > 0
    THEN [lines |-> splice(acc.lines, expansion.startLine, expansion.endLine,
                           withoutBlankEnds(split(r.expanded))),
          fileCount |-> acc.fileCount + 1]
    ELSE acc

refreshOne(acc, expansion, r) ==
    IF expansion.type = "directory"
    THEN refreshDirectory(acc, expansion, r, split(r.expanded))
    ELSE refreshFile(acc, expansion, r)

RECURSIVE refreshExpansions(_, _, _, _)
\* the loop over expansions.reverse(): from the last expansion of the list to the first
refreshExpansions(e, expansions, k, acc) ==
    IF k = 0 THEN acc
    ELSE refreshExpansions(e, expansions, k - 1,
             refreshOne(acc, expansions[k],
                 expandReferences(e, <<LB, LB>> \o expansions[k].pattern \o <<RB, RB>>, 0)))

RECURSIVE refreshOutput(_, _, _)
\* what the loop prints: the fetchError of every pattern that fails; the
\* warning of its catch needs expandReferences to throw, which it does not
\* for a reference that fails
refreshOutput(e, expansions, k) ==
    IF k = 0 THEN <<>>
    ELSE fetchErrors(e, <<LB, LB>> \o expansions[k].pattern \o <<RB, RB>>, 0)
         \o refreshOutput(e, expansions, k - 1)

\* the content after the first pass: unexpanded references are expanded and
\* saved when at least one of them resolves
expandedFirst(e, content) ==
    IF hasLooseMatch(content) /\ expandReferences(e, content, 0).fileCount > 0
    THEN expandReferences(e, content, 0).expanded
    ELSE content

firstOutput(e, content) ==
    IF hasLooseMatch(content) THEN fetchErrors(e, content, 0) ELSE <<>>

\* the second pass over content, hasUnexpanded the test of the first pass
refreshFound(e, content, hasUnexpanded, expansions, firstLog) ==
    IF expansions = <<>>
    THEN [refreshed |-> hasUnexpanded, fileCount |-> 0, content |-> content,
          output |-> firstLog]
    ELSE [refreshed |-> TRUE,
          fileCount |-> refreshExpansions(e, expansions, Len(expansions),
                            [lines |-> split(content), fileCount |-> 0]).fileCount,
          content |-> join(refreshExpansions(e, expansions, Len(expansions),
                            [lines |-> split(content), fileCount |-> 0]).lines),
          output |-> firstLog \o refreshOutput(e, expansions, Len(expansions))]

\* the value refreshAllContent returns, with the file content it leaves on
\* disk and the diagnostics it prints
refreshAllContent(e, content) ==
    refreshFound(e, expandedFirst(e, content), hasLooseMatch(content),
                 findAllExpandedContent(split(expandedFirst(e, content))),
                 firstOutput(e, content))

\* refresh command
Refresh ==
    /\ pc = "edit"
    /\ before' = file
    /\ result' = refreshAllContent(env, file)
    /\ file' = result'.content
    /\ output' = output \o result'.output
    /\ pc' = "refreshed"
    /\ UNCHANGED <<session, writer, interrupted, sigintCount, stream, chunks, refs,
                   env, error, tmp, retry>>

MaxBlocks == 3         \* expansion blocks and lines of a document to refresh

OLD == "old"

\* the block an earlier expandFile left for a file that held the text OLD
staleFileBlock(heading, name) ==
    <<NL, heading, name, NL, BT, BT, BT, MARKDOWN, NL, OLD, NL, BT, BT, BT, NL>>

\* the block an earlier expandDirectory left for the directory src
staleDirBlock ==
    <<dirMarker(<<"src">>, SLASH), NL>>
    \o trim(staleFileBlock("### ", "src/a.md")) \o <<NL, DirClose, NL>>

RefreshBlocks ==
    { staleFileBlock("### ", "a.md"), staleFileBlock("### [1] ", "a.md"),
      staleFileBlock("### ", "none.md"), staleDirBlock, <<"x", NL>> }

RefreshEnvs == {[DefaultEnv EXCEPT !.fileText = t] : t \in {<<"x">>, <<"x", NL, "x">>}}

\* a block or a line is appended to the session file
AddBlock(block) ==
    /\ pc = "edit"
    /\ Cardinality({i \in 1..Len(file) : file[i] \in {OLD, "x"}}) < MaxBlocks
    /\ file' = file \o block
    /\ UNCHANGED <<pc, session, writer, interrupted, sigintCount, stream, chunks,
                   before, refs, result, env, error, output, tmp, retry>>

InitRefresh == file = InitFile /\ IdleProgram /\ env \in RefreshEnvs

NextRefresh == (\E block \in RefreshBlocks : AddBlock(block)) \/ Refresh

SpecRefresh == InitRefresh /\ [][NextRefresh]_vars

\* the expansion blocks of a document, as refresh finds them
SpansOf(content) == Range(findAllExpandedContent(split(content)))

ReResolveFails(span) == ~expandReference(env, span.pattern, 0).ok

ReResolves(span) ==
    expandReference(env, span.pattern, 0).ok /\ expandReference(env, span.pattern, 0).files > 0

\* the lines a block holds after a best-effort refresh: the freshly resolved
\* text when its pattern resolves, its own lines otherwise
LinesAfterRefresh(lines, span) ==
    IF ReResolves(span) THEN split(trim(expandReference(env, span.pattern, 0).text))
    ELSE SubSeq(lines, span.startLine, span.endLine)

RECURSIVE RefreshedInPlace(_, _, _)
\* the document with every block rewritten at its own place, from line pos on
RefreshedInPlace(lines, spans, pos) ==
    IF \A s \in spans : s.startLine < pos THEN SubSeq(lines, pos, Len(lines))
    ELSE LET s == CHOOSE t \in spans :
                      t.startLine >= pos /\ \A u \in spans : u.startLine >= pos => t.startLine <= u.startLine
         IN  SubSeq(lines, pos, s.startLine - 1) \o LinesAfterRefresh(lines, s)
             \o RefreshedInPlace(lines, spans, s.endLine + 1)

RECURSIVE RefreshedCount(_)
RefreshedCount(spans) ==
    IF spans = {} THEN 0
    ELSE LET s == CHOOSE t \in spans : TRUE
         IN  (IF ~ReResolves(s) THEN 0
              ELSE IF s.type = "file" THEN 1
              ELSE expandReference(env, s.pattern, 0).files)
             + RefreshedCount(spans \ {s})

\* C20: refresh is best-effort per block: when a block of the document fails
\* to re-resolve, a diagnostic naming it is printed, its lines stay as they
\* were, every block that re-resolves is replaced in place, and the call
\* returns success with the count of the refreshed resources only.
C20_RefreshIsBestEffortPerBlock ==
    (pc = "refreshed" /\ \E s \in SpansOf(before) : ReResolveFails(s)) =>
        /\ \A s \in SpansOf(before) :
               ReResolveFails(s) => \E k \in 1..Len(output) : output[k].ref = s.pattern
        /\ file = join(RefreshedInPlace(split(before), SpansOf(before), 1))
        /\ result.refreshed
        /\ result.fileCount = RefreshedCount(SpansOf(before))

----------------------------------------------------------------------------
(* Specification of expandAndSaveSession, its save step by step *)

MaxSaveLines == 3      \* lines a user types before the session is expanded

SaveLines ==
    { <<HeaderText(1, "Human")>>, <<HeaderText(2, "AI")>>, <<"x">>, <<BT, BT, BT>>,
      Reference(<<"a.md">>), Reference(<<"none.md">>), Reference(<<URL>>) }

SaveEnvs == {[DefaultEnv EXCEPT !.web = w] : w \in BOOLEAN}

\* expandAndSaveSession up to its Bun.write: the last Human turn of the session
\* read from the file is expanded and the new content built; the temporary
\* file is created when there is something to save
SaveStart ==
    /\ pc = "edit"
    /\ before' = file
    /\ session' = parseSession(file)
    /\ result' = expandAndSaveSession(env, file, session')
    /\ output' = output \o expandOutput(env, session')
    /\ IF result'.error # NoError
       THEN pc' = "exited" /\ error' = result'.error /\ UNCHANGED tmp
       ELSE IF result'.expanded
       THEN pc' = "writing" /\ tmp' = [exists |-> TRUE, content |-> <<>>] /\ UNCHANGED error
       ELSE pc' = "saved" /\ UNCHANGED <<tmp, error>>
    /\ UNCHANGED <<file, writer, interrupted, sigintCount, stream, chunks, refs, env, retry>>

Writing == {"writing", "writing first", "writing second"}

\* a write that puts the content into the session file itself, part by part
WriteTmp_InPlace ==
    /\ pc \in Writing
    /\ \E n \in (Len(tmp.content) + 1)..Len(result.content) :
           /\ tmp' = [exists |-> TRUE, content |-> SubSeq(result.content, 1, n)]
           /\ file' = SubSeq(result.content, 1, n)
    /\ UNCHANGED <<pc, session, writer, interrupted, sigintCount, stream, chunks,
                   before, refs, result, env, error, output, retry>>

\* Bun.write(tmpPath, content): a further part of the content reaches the
\* temporary file
WriteTmp ==
    /\ pc \in Writing
    /\ \E n \in (Len(tmp.content) + 1)..Len(result.content) :
           tmp' = [exists |-> TRUE, content |-> SubSeq(result.content, 1, n)]
    /\ UNCHANGED <<file, pc, session, writer, interrupted, sigintCount, stream, chunks,
                   before, refs, result, env, error, output, retry>>

\* fs.rename(tmpPath, path) once the write has completed; the command goes on
\* to what follows the save
Rename ==
    /\ pc \in Writing
    /\ tmp.content = result.content
    /\ file' = tmp.content
    /\ tmp' = NoTmp
    /\ pc' = (IF pc = "writing" THEN "saved"
              ELSE IF pc = "writing first" THEN "second" ELSE "refreshed")
    /\ UNCHANGED <<session, writer, interrupted, sigintCount, stream, chunks,
                   before, refs, result, env, error, output, retry>>

InitSave == file = InitFile /\ IdleProgram /\ env \in SaveEnvs

NextSave ==
    \/ \E line \in SaveLines : TypeLine(line, MaxSaveLines)
    \/ SaveStart
    \/ WriteTmp
    \/ Rename

SpecSave == InitSave /\ [][NextSave]_vars

\* the last Human turn of a session resolves no file, directory or page
ResolvesNothing(s) ==
    \/ s.lastHumanTurnIndex = -1
    \/ ResolvedCount(s.turns[s.lastHumanTurnIndex + 1].content,
                     matchAll(s.turns[s.lastHumanTurnIndex + 1].content), 1) = 0

\* C21: expandAndSaveSession is a no-op when the expansion of the last Human
\* turn resolves nothing: it returns expanded = false and count 0, creates no
\* temporary file, renames nothing and leaves the session file as it was.
C21_NothingResolvedNothingSaved ==
    /\ []((pc = "saved" /\ ResolvesNothing(parseSession(before))) =>
             /\ ~result.expanded /\ result.fileCount = 0
             /\ file = before /\ tmp = NoTmp)
    /\ [][(pc = "edit" /\ pc' # "edit" /\ ResolvesNothing(parseSession(file))) =>
             (pc' = "saved" /\ file' = file /\ tmp' = tmp)]_vars

\* a turn whose references all fail or are a disabled URL went through
\* expandAndSaveSession
C21_Witness ==
    /\ pc = "saved"
    /\ ~env.web
    /\ before = InitFile \o Reference(<<"none.md">>) \o <<NL>> \o Reference(<<URL>>) \o <<NL>>
    /\ file = before
    /\ Len(output) = 1

----------------------------------------------------------------------------
(* Specification of the saves of expandAndSaveSession and refreshAllContent *)

\* the first pass of refreshAllContent saves when a reference resolves
firstSaves(e, content) ==
    hasLooseMatch(content) /\ expandReferences(e, content, 0).fileCount > 0

\* refreshAllContent, first pass up to its Bun.write
RefreshFirst ==
    /\ pc = "edit"
    /\ before' = file
    /\ result' = [refreshed |-> hasLooseMatch(file), fileCount |-> 0,
                  content |-> expandedFirst(env, file), output |-> firstOutput(env, file)]
    /\ output' = output \o result'.output
    /\ IF firstSaves(env, file)
       THEN pc' = "writing first" /\ tmp' = [exists |-> TRUE, content |-> <<>>]
       ELSE pc' = "second" /\ UNCHANGED tmp
    /\ UNCHANGED <<file, session, writer, interrupted, sigintCount, stream, chunks, refs,
                   env, error, retry>>

\* refreshAllContent, second pass up to its Bun.write; without expansions it
\* returns without a write
RefreshSecond ==
    /\ pc = "second"
    /\ result' = refreshFound(env, result.content, result.refreshed,
                              findAllExpandedContent(split(result.content)), <<>>)
    /\ output' = output \o result'.output
    /\ IF findAllExpandedContent(split(result.content)) = <<>>
       THEN pc' = "refreshed" /\ UNCHANGED tmp
       ELSE pc' = "writing second" /\ tmp' = [exists |-> TRUE, content |-> <<>>]
    /\ UNCHANGED <<file, session, writer, interrupted, sigintCount, stream, chunks,
                   before, refs, env, error, retry>>

StoreBlocks ==
    { staleFileBlock("### ", "a.md"), staleDirBlock, <<"x", NL>>,
      <<"x", NL>> \o Reference(<<"a.md">>) \o <<NL>> }

InitStore == file = InitFile /\ Idle

NextStore ==
    \/ \E block \in StoreBlocks : AddBlock(block)
    \/ SaveStart
    \/ RefreshFirst
    \/ RefreshSecond
    \/ WriteTmp
    \/ Rename

SpecStore == InitStore /\ [][NextStore]_vars

\* C22: the saves of expandAndSaveSession and of both passes of
\* refreshAllContent are atomic for a reader of the session path: the content
\* goes to a temporary file first, the session file changes only by the
\* rename of the completely written temporary file, and while the write is
\* under way the session file is still the content the save started from.
C22_SavesAreAtomic ==
    /\ [][file' # file =>
             \/ (pc = "edit" /\ pc' = "edit")
             \/ (pc \in Writing /\ tmp.exists /\ tmp.content = result.content
                 /\ file' = result.content /\ ~tmp'.exists)]_vars
    /\ [][pc' \in Writing => file' = file]_vars

\* the second write of a refresh is half done: the temporary file holds a
\* part of the new content and the session file the content of the first save
C22_Witness ==
    /\ pc = "writing second"
    /\ tmp.exists
    /\ 0 < Len(tmp.content) /\ Len(tmp.content) < Len(result.content)
    /\ file # before
    /\ file # result.content

----------------------------------------------------------------------------
\* C23: a file reference that resolves is emitted as a block whose first line
\* is the marker <!-- file: path --> and whose last line is <!-- /file -->,
\* around the ### path heading and the fenced content.
C23_FileBlockHasMarkers ==
    (pc = "expanded" /\ result.fileCount = 1) =>
        /\ Head(split(trim(result.expanded))) = <<FileOpen>>
        /\ split(trim(result.expanded))[Len(split(trim(result.expanded)))] = <<FileClose>>
        /\ split(trim(result.expanded))[2] = <<"### ", "a.md">>

----------------------------------------------------------------------------
\* the list refreshAllContent walks from its end to its start is in document order
InDocumentOrder(expansions) ==
    \A i \in 1..Len(expansions), j \in 1..Len(expansions) :
        i < j => expansions[i].endLine < expansions[j].startLine

\* C24: the second pass of refreshAllContent handles the recorded spans,
\* directory blocks and file blocks together, in reverse document order,
\* highest start line first, so that every splice meets the block its
\* recorded lines were computed for and the document is refreshed in place.
C24_ReverseDocumentOrder ==
    pc = "refreshed" =>
        /\ InDocumentOrder(findAllExpandedContent(split(before)))
        /\ file = join(RefreshedInPlace(split(before), SpansOf(before), 1))

----------------------------------------------------------------------------
\* the real header lines of Human turns that the parser keeps
KeptHumanHeaders(lines) ==
    {h \in RealHeaders(lines) :
        /\ \E n \in 0..(MaxTurnNumber + 1) : lines[h] = <<HeaderText(n, "Human")>>
        /\ \E i \in (h + 1)..Len(lines) :
               /\ trim(lines[i]) # <<>>
               /\ \A k \in RealHeaders(lines) : ~(h < k /\ k <= i)}

LastHumanHeader(lines) ==
    CHOOSE h \in KeptHumanHeaders(lines) : \A k \in KeptHumanHeaders(lines) : k <= h

\* the line of the next real header after line h, one past the end when there is none
NextHeaderAfter(lines, h) ==
    IF \E k \in RealHeaders(lines) : k > h
    THEN CHOOSE k \in RealHeaders(lines) :
             k > h /\ \A j \in RealHeaders(lines) : j > h => k <= j
    ELSE Len(lines) + 1

ExpandedTurnText(s) ==
    trim(expandReferences(env, s.turns[s.lastHumanTurnIndex + 1].content,
                          s.turns[s.lastHumanTurnIndex + 1].number).expanded)

\* old and new are the same lines up to line h and from line nx of old on,
\* and the new lines between hold body
OnlyBodyReplaced(old, new, h, nx, body) ==
    /\ Len(new) >= h + (Len(old) - nx + 1)
    /\ SubSeq(new, 1, h) = SubSeq(old, 1, h)
    /\ SubSeq(new, Len(new) - (Len(old) - nx), Len(new)) = SubSeq(old, nx, Len(old))
    /\ trim(join(SubSeq(new, h + 1, Len(new) - (Len(old) - nx) - 1))) = body

\* C25: a successful expandAndSaveSession replaces only the body of the last
\* Human turn, the text between its real header and the next turn header or
\* the end of the file, by the trimmed expanded text; the file up to the
\* header and from the next header on is unchanged, and the file parses to
\* the same turns with this turn's content expanded.
C25_OnlyLastHumanBodyReplaced ==
    (pc = "saved" /\ result.expanded) =>
        /\ OnlyBodyReplaced(split(before), split(file), LastHumanHeader(split(before)),
               NextHeaderAfter(split(before), LastHumanHeader(split(before))),
               ExpandedTurnText(session))
        /\ parseSession(file).turns =
               [session.turns EXCEPT ![session.lastHumanTurnIndex + 1].content =
                    ExpandedTurnText(session)]

----------------------------------------------------------------------------
\* the entries of a directory listing that can be embedded
EmbeddableEntries(dir, recursive) ==
    SelectSeq(globFiles(<<dir>>, recursive), LAMBDA name : name \in TextFiles)

RECURSIVE JoinedBlocks(_)
\* the file blocks of the named files, one after the other
JoinedBlocks(names) ==
    IF names = <<>> THEN <<>>
    ELSE fileBlock(Head(names), escapeReferences(fileText(env, Head(names))), 0)
         \o JoinedBlocks(Tail(names))

Occurrences(text, tokens) == Cardinality({i \in 1..Len(text) : text[i] \in tokens})

DirOpeners == {dirMarker(<<d>>, suffix) : d \in Directories, suffix \in {SLASH, RECURSIVE_SUFFIX}}

\* C26: a directory reference under which at least one file can be embedded
\* counts the files embedded successfully, skips an entry that fails (a
\* binary file) without annotation or diagnostic, and wraps the joined
\* blocks in exactly one pair of dir markers naming the reference.
C26_DirectorySkipsFailingEntries ==
    \A ref \in DirectoryReferences :
        (/\ pc = "expanded"
         /\ refs = Reference(ref) \o <<NL>>
         /\ EmbeddableEntries(ref[1], ref[2] = RECURSIVE_SUFFIX) # <<>>)
        => /\ result.fileCount = Len(EmbeddableEntries(ref[1], ref[2] = RECURSIVE_SUFFIX))
           /\ result.expanded =
                  <<dirMarker(<<ref[1]>>, ref[2]), NL>>
                  \o trim(JoinedBlocks(EmbeddableEntries(ref[1], ref[2] = RECURSIVE_SUFFIX)))
                  \o <<NL, DirClose, NL>>
           /\ Occurrences(result.expanded, DirOpeners) = 1
           /\ Occurrences(result.expanded, {DirClose}) = 1
           /\ Occurrences(result.expanded, {"Error: "} \cup BinaryFiles) = 0
           /\ output = <<>>

\* the reference to src/, which lists a.md and the binary b.bin, was expanded
C26_Witness ==
    /\ pc = "expanded"
    /\ refs = Reference(<<"src", SLASH>>) \o <<NL>>
    /\ Len(globFiles(<<"src">>, FALSE)) > result.fileCount
    /\ result.fileCount = 1

----------------------------------------------------------------------------
(* Specification of the classification of a reference *)

ClassifyPayloads ==
    { <<URL>>, <<URL, SLASH>>, <<HTTP_URL, RECURSIVE_SUFFIX>>, <<"src">>, <<"src", SLASH>>,
      <<"src", RECURSIVE_SUFFIX>>, <<"top">>, <<"top", RECURSIVE_SUFFIX>>, <<"empty">>,
      <<"a.md">>, <<"none.md">>, <<"b.bin">> }

ClassifyEnvs ==
    { [DefaultEnv EXCEPT !.web = w, !.globDirs = g] : w \in BOOLEAN, g \in BOOLEAN }

InitClassify == file = InitFile /\ IdleProgram /\ env \in ClassifyEnvs

NextClassify ==
    \/ \E payload \in ClassifyPayloads : AddItem(Reference(payload))
    \/ Expand

SpecClassify == InitClassify /\ [][NextClassify]_vars

\* the kind of a payload by the priority of its scheme, its suffix and one stat
ClaimedKind(payload) ==
    IF payload[1] \in {HTTP_URL, URL} THEN "url"
    ELSE IF payload[Len(payload)] = RECURSIVE_SUFFIX THEN "recursive directory"
    ELSE IF payload[Len(payload)] = SLASH THEN "directory"
    ELSE IF payload \in {<<d>> : d \in Directories} THEN "directory"
    ELSE "file"

WithoutSuffix(payload) ==
    IF payload[Len(payload)] \in {SLASH, RECURSIVE_SUFFIX}
    THEN SubSeq(payload, 1, Len(payload) - 1) ELSE payload

\* what the expansion of the claimed kind returns for the payload
ClaimedExpansion(payload) ==
    CASE ClaimedKind(payload) = "url" -> expandUrlReference(env, payload)
      [] ClaimedKind(payload) = "recursive directory" ->
             expandDirectory(env, WithoutSuffix(payload), TRUE, 0)
      [] ClaimedKind(payload) = "directory" ->
             expandDirectory(env, WithoutSuffix(payload), FALSE, 0)
      [] OTHER -> expandFile(env, payload, 0)

\* C27: a reference is classified by a fixed priority: a payload with an
\* http or https scheme is a URL whatever its suffix, else a payload ending in
\* the recursive suffix is a recursive directory, else one ending in a slash
\* is a directory, else one that stats as a directory is a directory, else it
\* is a file, a path that cannot be stat'ed included.
C27_ClassificationPriority ==
    \A payload \in ClassifyPayloads :
        (pc = "expanded" /\ refs = Reference(payload) \o <<NL>>)
        => result = expandOne([expanded |-> refs, fileCount |-> 0],
                              Reference(payload), payload, ClaimedExpansion(payload))

\* a URL that ends in a slash was expanded as a URL: the fetch failed
C27_Witness ==
    /\ pc = "expanded"
    /\ refs = Reference(<<URL, SLASH>>) \o <<NL>>
    /\ env.web
    /\ Contains(result.expanded, <<"fetch failed">>)

----------------------------------------------------------------------------
\* C28: when the transport yields an error event after the AI header was
\* written, the command calls end(true) before it exits, so that the file
\* ends with the closing fence and the header of the next Human turn.
C28_ErrorStillClosesTurn ==
    (pc = "exited" /\ error = "StreamError" /\ writer.headerWritten) =>
        EndsWith(file, ClosedTurnOpenHuman(writer.turnNumber))

----------------------------------------------------------------------------
(* Specification of repeated runs of the ask command *)

MaxRerunLines == 2     \* lines the user types before a run
MaxRerunChunks == 2    \* text chunks of one answer
MaxRerunFile == 16     \* lines of a file after which no further run is started

RerunLines == { <<"x">>, <<SP>> }

RerunEvents ==
    {event \in NextEvents :
        event.type = "chunk" => (event.text \in {<<"x">>, <<NL>>} /\ stream.count < MaxRerunChunks)}

\* the run has ended and the prompt is back: writer and stream keep the record
\* of the run, before holds the file as the run left it
Return ==
    /\ pc = "done"
    /\ writer.turnNumber < MaxTurnNumber
    /\ Len(split(file)) < MaxRerunFile
    /\ pc' = "edit"
    /\ before' = file
    /\ chunks' = <<>>
    /\ interrupted' = FALSE
    /\ sigintCount' = 0
    /\ UNCHANGED <<file, session, writer, stream, refs, result, env, error, output, tmp, retry>>

\* the file as `ask init` or the last run left it
LastLeft == IF before = <<>> THEN InitFile ELSE before

InitRerun == file = InitFile /\ Idle

NextRerun ==
    \/ \E line \in RerunLines :
           TypeLine(line, Len(split(LastLeft)) - Len(split(InitFile)) + MaxRerunLines)
    \/ AskStart
    \/ Sigint
    \/ \E event \in RerunEvents : LoopEvent(event)
    \/ LoopExit
    \/ Return

SpecRerun == InitRerun /\ [][NextRerun]_vars

\* the last run wrote an AI turn with at least one chunk and ended
LastRunAnswered == pc = "edit" /\ writer.headerWritten /\ writer.contentWritten

\* what the user typed since the last run ended
TypedSince == SubSeq(file, Len(before) + 1, Len(file))

\* C29: after a run that wrote the AI turn with at least one chunk and ended,
\* a run on the unedited file is rejected as already answered and appends
\* nothing, and a run that starts a further AI turn found a non-empty Human
\* turn typed below the last AI turn.
C29_DoubleSubmissionGuard ==
    [][(LastRunAnswered /\ pc' # "edit") =>
          /\ file = before => (pc' = "exited" /\ error' = "AlreadyAnswered" /\ file' = file)
          /\ pc' = "streaming" =>
                 /\ trim(TypedSince) # <<>>
                 /\ session'.turns[Len(session'.turns)] =
                        [number |-> writer.turnNumber + 1, role |-> "Human",
                         content |-> trim(TypedSince)]]_vars

----------------------------------------------------------------------------
(* withRetry around the request to the model *)

\* An error message is a sequence of words; a thrown value is a record that
\* says whether it is an Error.
delays == <<1000, 2000, 4000>>

\* String.prototype.toLowerCase, word by word
toLowerCase(message) ==
    [i \in 1..Len(message) |->
        CASE message[i] = "Throttling" -> "throttling"
          [] message[i] = "Exception" -> "exception"
          [] message[i] = "Too many connections" -> "too many connections"
          [] message[i] = "Rate exceeded" -> "rate exceeded"
          [] message[i] = "Service" -> "service"
          [] message[i] = "Unavailable" -> "unavailable"
          [] message[i] = "Validation" -> "validation"
          [] OTHER -> message[i]]

retryablePatterns ==
    { <<"too many connections">>, <<"service", "Unavailable", "exception">>,
      <<"throttling">>, <<"rate exceeded">>, <<"503 service unavailable">> }

isRetryable(thrown) ==
    /\ thrown.isError
    /\ \E pattern \in retryablePatterns : Contains(toLowerCase(thrown.message), pattern)

\* what client.send may throw
ThrownValues ==
    { [isError |-> TRUE, message |-> <<"Throttling", "Exception">>],
      [isError |-> TRUE, message |-> <<"Too many connections">>],
      [isError |-> TRUE, message |-> <<"Rate exceeded">>],
      [isError |-> TRUE, message |-> <<"Service", "Unavailable", "Exception">>],
      [isError |-> TRUE, message |-> <<"Validation", "Exception">>],
      [isError |-> FALSE, message |-> <<"Throttling">>] }

\* a catch block that goes to sleep after every failure but the last
afterCatch_SleepsAlways(attempt, thrown) ==
    IF attempt = Len(delays) THEN "thrown" ELSE "sleeping"

\* the catch block of withRetry: where the loop goes after a failure
afterCatch(attempt, thrown) ==
    IF attempt = Len(delays) THEN "thrown"
    ELSE IF isRetryable(thrown) THEN "sleeping" ELSE "thrown"

\* streamCompletion calls withRetry: the loop starts with attempt 0
WithRetry ==
    /\ pc = "edit"
    /\ pc' = "calling"
    /\ retry' = NoRetry
    /\ UNCHANGED <<file, session, writer, interrupted, sigintCount, stream, chunks,
                   before, refs, result, env, error, output, tmp>>

\* `return await operation()` when the request succeeds
OperationReturns ==
    /\ pc = "calling"
    /\ retry' = [retry EXCEPT !.invocations = @ + 1]
    /\ pc' = "returned"
    /\ UNCHANGED <<file, session, writer, interrupted, sigintCount, stream, chunks,
                   before, refs, result, env, error, output, tmp>>

\* the request throws: the catch block rethrows or goes to sleep
OperationThrows(thrown) ==
    /\ pc = "calling"
    /\ retry' = [retry EXCEPT !.invocations = @ + 1, !.caught = Append(@, thrown)]
    /\ pc' = afterCatch(retry.attempt, thrown)
    /\ UNCHANGED <<file, session, writer, interrupted, sigintCount, stream, chunks,
                   before, refs, result, env, error, output, tmp>>

\* `await sleep(delays[attempt])`, then the next iteration of the loop
Sleep ==
    /\ pc = "sleeping"
    /\ retry' = [retry EXCEPT !.slept = Append(@, delays[retry.attempt + 1]),
                              !.attempt = @ + 1]
    /\ pc' = "calling"
    /\ UNCHANGED <<file, session, writer, interrupted, sigintCount, stream, chunks,
                   before, refs, result, env, error, output, tmp>>

InitRetry == file = InitFile /\ Idle

NextRetry ==
    \/ WithRetry
    \/ OperationReturns
    \/ \E thrown \in ThrownValues : OperationThrows(thrown)
    \/ Sleep

SpecRetry == InitRetry /\ [][NextRetry]_vars

\* C30: withRetry invokes the operation at most 4 times, sleeps 1 s, 2 s and
\* 4 s in that order between the attempts, returns at the first success
\* without another invocation, invokes again only after a failure that
\* isRetryable takes for retryable, and rethrows a failure that is not
\* retryable or the failure of the fourth attempt without another invocation.
C30_RetryIsBounded ==
    /\ [](/\ retry.invocations <= 4
          /\ retry.slept = SubSeq(<<1000, 2000, 4000>>, 1, Len(retry.slept))
          /\ pc \in {"sleeping", "thrown"} =>
                 (/\ Len(retry.caught) = retry.invocations
                  /\ Len(retry.slept) = retry.invocations - 1)
          /\ pc = "sleeping" =>
                 (/\ isRetryable(retry.caught[Len(retry.caught)])
                  /\ retry.invocations < 4)
          /\ pc = "thrown" =>
                 (\/ ~isRetryable(retry.caught[Len(retry.caught)])
                  \/ retry.invocations = 4)
          /\ pc = "returned" => Len(retry.caught) = retry.invocations - 1)
    /\ [][/\ pc \in {"returned", "thrown"} => retry' = retry
          /\ (retry.invocations > 0 /\ retry'.invocations > retry.invocations) =>
                 (/\ Len(retry.caught) = retry.invocations
                  /\ isRetryable(retry.caught[Len(retry.caught)])
                  /\ Len(retry'.slept) = retry.invocations)]_vars

\* the fourth attempt failed with a retryable error after delays of 1, 2 and 4 s
C30_Witness ==
    /\ pc = "thrown"
    /\ retry.invocations = 4
    /\ retry.slept = <<1000, 2000, 4000>>
    /\ isRetryable(retry.caught[4])

====
